---- MODULE Spec2Model ----
(***************************************************************************)
(* A model of the reflect IR: the Type node algebra (ty.rs), the Data      *)
(* shape (data.rs), the Value arena (value.rs, node.rs, module.rs) and the *)
(* generic-parameter model (generics.rs).                                  *)
(*                                                                         *)
(* Rust indices are 0-based; TLA+ sequences are 1-based.  A Rust index i   *)
(* into a Vec v is written v[i + 1] here, and a ValueRef r resolves to     *)
(* VALUES[r + 1].                                                          *)
(***************************************************************************)
EXTENDS Integers, Sequences, FiniteSets, TLC

(***************************************************************************)
(* Bounds of the model.                                                    *)
(***************************************************************************)
\* Nesting depth of the types the type algebra builds.
MaxDepth == 2
\* Length of the list a call is given (the types of new_tuple, the
\* declarations of set_generic_params, the clauses of
\* set_generic_constraints), and largest index tried.
MaxLen == 2
\* Number of nodes the value arena holds at most.
MaxValues == 5
\* Number of declarations, clauses, clones and mints of one run of the
\* generics.
MaxItems == 3

(***************************************************************************)
(* A fatal abort (panic!, unimplemented!, a failed unwrap/expect, a Vec    *)
(* index out of bounds): the operation returns nothing.                    *)
(***************************************************************************)
Panic == [tag |-> "Panic"]

IsPanic(x) == x.tag = "Panic"

(***************************************************************************)
(* Generic-parameter symbols (generics.rs).  A symbol is tagged by its     *)
(* kind and carries the number its counter minted.                         *)
(***************************************************************************)
\* The fixed well-known lifetime 'static.
STATIC_LIFETIME == 0

LifetimeParam(n) == [kind |-> "Lifetime", n |-> n]

TypeParam(n) == [kind |-> "Type", n |-> n]

ConstParam == [kind |-> "Const"]

StaticParam == LifetimeParam(STATIC_LIFETIME)

\* SynParamMap::new: the lookup table holding 'static alone.  A table is a
\* function from names to symbols.
SynParamMap_new == [k \in {"'static"} |-> StaticParam]

\* Generics::default.
Generics_default ==
    [params |-> <<>>, constraints |-> <<>>, param_map |-> SynParamMap_new]

(***************************************************************************)
(* TypeNode (ty.rs).  Option<Lifetime> is a sequence: <<>> is None and     *)
(* <<l>> is Some(l).                                                       *)
(***************************************************************************)
Infer == [tag |-> "Infer"]

PrimitiveStr == [tag |-> "PrimitiveStr"]

TupleType(types) == [tag |-> "Tuple", types |-> types]

ReferenceType(is_mut, lifetime, inner) ==
    [tag |-> "Reference", is_mut |-> is_mut, lifetime |-> lifetime, inner |-> inner]

DereferenceType(inner) == [tag |-> "Dereference", inner |-> inner]

TypeParamType(n) == [tag |-> "TypeParam", param |-> n]

DataStructureType(name, generics, data) ==
    [tag |-> "DataStructure", name |-> name, generics |-> generics, data |-> data]

(***************************************************************************)
(* Data<T> (data.rs).  A Struct is unit, tuple or named-field; an Enum is  *)
(* a list of variants, which carry attributes only (PhantomData<T>).       *)
(***************************************************************************)
AccessorIndex(i) == [kind |-> "Index", index |-> i]

AccessorName(n) == [kind |-> "Name", name |-> n]

Field(accessor, element) == [accessor |-> accessor, element |-> element]

UnitStruct(attrs) ==
    [tag |-> "Struct", shape |-> "Unit", fields |-> <<>>, attrs |-> attrs]

TupleStruct(fields, attrs) ==
    [tag |-> "Struct", shape |-> "Tuple", fields |-> fields, attrs |-> attrs]

StructStruct(fields, attrs) ==
    [tag |-> "Struct", shape |-> "Struct", fields |-> fields, attrs |-> attrs]

Variant(shape, attrs) == [shape |-> shape, attrs |-> attrs]

Enum(variants, attrs) == [tag |-> "Enum", variants |-> variants, attrs |-> attrs]

\* Struct::fields: the fields of a struct, none for a unit struct.
Struct_fields(s) == IF s.shape = "Unit" THEN <<>> ELSE s.fields

\* The fields of a shape in order: the fields the closure given to map is
\* called on.  An enum's variants hold none.
FieldSeq(d) == IF d.tag = "Struct" THEN d.fields ELSE <<>>

\* Data::map: the same shape, the element of field i replaced by
\* results[i], what the closure returned for field i.
Data_map(d, results) ==
    IF d.tag = "Struct"
    THEN [d EXCEPT !.fields =
            [i \in DOMAIN d.fields |->
                Field(d.fields[i].accessor, results[i])]]
    ELSE d

(***************************************************************************)
(* The Type algebra (ty.rs).                                               *)
(***************************************************************************)
Type_new_unit == TupleType(<<>>)

Type_new_tuple(types) == TupleType(types)

Type_new_primitive_str == PrimitiveStr

Type_new_reference_collapse(self) ==
    IF self.tag = "Reference"
    THEN ReferenceType(FALSE, <<>>, self.inner)
    ELSE ReferenceType(FALSE, <<>>, self)

Type_new_reference(self) == ReferenceType(FALSE, <<>>, self)

Type_new_reference_mut(self) == ReferenceType(TRUE, <<>>, self)

Type_dereference_wrap(self) == DereferenceType(self)

Type_dereference(self) ==
    IF self.tag = "Reference" THEN self.inner ELSE DereferenceType(self)

RECURSIVE Type_as_data_flat(_)
Type_as_data_flat(self) ==
    CASE self.tag = "DataStructure" ->
            Data_map(self.data,
                     [i \in DOMAIN FieldSeq(self.data) |->
                        FieldSeq(self.data)[i].element])
      [] self.tag = "Reference" ->
            LET inner == Type_as_data_flat(self.inner)
            IN  IF IsPanic(inner) \/ inner.tag # "Struct" THEN inner
                ELSE [inner EXCEPT !.fields =
                        [i \in DOMAIN inner.fields |->
                            Field(AccessorIndex(i - 1),
                                  ReferenceType(self.is_mut, self.lifetime,
                                                inner.fields[i].element))]]
      [] OTHER -> Panic

RECURSIVE Type_as_data_shared(_)
\* Type::as_data that puts a shared reference on every field, whatever the
\* mutability of the receiver.
Type_as_data_shared(self) ==
    CASE self.tag = "DataStructure" ->
            Data_map(self.data,
                     [i \in DOMAIN FieldSeq(self.data) |->
                        FieldSeq(self.data)[i].element])
      [] self.tag = "Reference" ->
            LET inner == Type_as_data_shared(self.inner)
            IN  IF IsPanic(inner) THEN Panic
                ELSE Data_map(inner,
                        [i \in DOMAIN FieldSeq(inner) |->
                            ReferenceType(FALSE, self.lifetime,
                                          FieldSeq(inner)[i].element)])
      [] OTHER -> Panic

RECURSIVE Type_as_data(_)
Type_as_data(self) ==
    CASE self.tag = "DataStructure" ->
            Data_map(self.data,
                     [i \in DOMAIN FieldSeq(self.data) |->
                        FieldSeq(self.data)[i].element])
      [] self.tag = "Reference" ->
            LET inner == Type_as_data(self.inner)
            IN  IF IsPanic(inner) THEN Panic
                ELSE Data_map(inner,
                        [i \in DOMAIN FieldSeq(inner) |->
                            ReferenceType(self.is_mut, self.lifetime,
                                          FieldSeq(inner)[i].element)])
      [] OTHER -> Panic

\* Type::index with the positions counted from 1 instead of 0.
Type_index_from_one(self, index) ==
    CASE self.tag = "Tuple" ->
            IF 1 <= index /\ index <= Len(self.types)
            THEN self.types[index] ELSE Panic
      [] self.tag = "DataStructure" ->
            IF self.data.tag = "Struct" /\ self.data.shape = "Tuple"
            THEN IF 1 <= index /\ index <= Len(self.data.fields)
                 THEN self.data.fields[index].element
                 ELSE Panic
            ELSE Panic
      [] OTHER -> Panic

Type_index(self, index) ==
    CASE self.tag = "Tuple" ->
            IF index < Len(self.types) THEN self.types[index + 1] ELSE Panic
      [] self.tag = "DataStructure" ->
            IF self.data.tag = "Struct" /\ self.data.shape = "Tuple"
            THEN IF index < Len(self.data.fields)
                 THEN self.data.fields[index + 1].element
                 ELSE Panic
            ELSE Panic
      [] OTHER -> Panic

(***************************************************************************)
(* Printable names.  A string is a sequence of tokens: a token is a piece  *)
(* of text, or what the external printer renders for a type.               *)
(***************************************************************************)
Tok(text) == [text |-> text]

\* The external printer's rendering of a type (quote!, Print::ref_cast).
PrintTokens(t) == <<[printed |-> t]>>

RECURSIVE TypeNode_get_name(_)
\* TypeNode::get_name: [tag |-> "Name", str |-> the name], or Panic.
TypeNode_get_name(self) ==
    CASE self.tag = "Tuple" -> [tag |-> "Name", str |-> PrintTokens(self)]
      [] self.tag = "PrimitiveStr" -> [tag |-> "Name", str |-> <<Tok("str")>>]
      [] self.tag = "DataStructure" -> [tag |-> "Name", str |-> <<Tok(self.name)>>]
      [] self.tag = "Reference" -> TypeNode_get_name(self.inner)
      [] self.tag \in {"Path", "TypeParam"} ->
            [tag |-> "Name", str |-> PrintTokens(self)]
      [] OTHER -> Panic

RECURSIVE trim_end_matches(_, _)
\* str::trim_end_matches: every trailing repetition of the pattern removed.
trim_end_matches(str, pat) ==
    IF str # <<>> /\ str[Len(str)] = pat
    THEN trim_end_matches(SubSeq(str, 1, Len(str) - 1), pat)
    ELSE str

(***************************************************************************)
(* ValueNode (node.rs) and the arenas.  A ValueRef is an index into        *)
(* VALUES, a MacroInvokeRef an index into MACROS, an InvokeRef an index    *)
(* into the externally populated table INVOKES.                            *)
(***************************************************************************)
TupleNode(values) == [tag |-> "Tuple", values |-> values]

StrNode(str) == [tag |-> "Str", str |-> str]

ReferenceNode(is_mut, value) ==
    [tag |-> "Reference", is_mut |-> is_mut, value |-> value]

DereferenceNode(value) == [tag |-> "Dereference", value |-> value]

BindingNode(name, t) == [tag |-> "Binding", name |-> name, ty |-> t]

DataStructureNode(name, data) ==
    [tag |-> "DataStructure", name |-> name, data |-> data]

InvokeNode(invoke) == [tag |-> "Invoke", invoke |-> invoke]

DestructureNode(parent, accessor, t) ==
    [tag |-> "Destructure", parent |-> parent, accessor |-> accessor, ty |-> t]

MacroInvocationNode(invoke) == [tag |-> "MacroInvocation", invoke |-> invoke]

\* GlobalPush::index_push: the node is appended and the reference returned
\* is its position.
index_push(arena, node) ==
    [arena |-> Append(arena, node), ref |-> Len(arena)]

\* ValueRef::node: the node a reference resolves to.
ValueRef_node(values, ref) == values[ref + 1]

\* The function signatures recorded outside the core: the declared output
\* type of each recorded call.
INVOKES == <<[output |-> PrimitiveStr], [output |-> Infer]>>

RECURSIVE ValueRef_get_type(_, _)
RECURSIVE TypesOf(_, _)
\* The types of a list of references in order (the map and collect of
\* the Tuple case), Panic if one of them has none.
TypesOf(values, refs) ==
    IF refs = <<>> THEN [tag |-> "Types", types |-> <<>>]
    ELSE LET h == ValueRef_get_type(values, Head(refs))
             r == TypesOf(values, Tail(refs))
         IN  IF IsPanic(h) \/ IsPanic(r) THEN Panic
             ELSE [tag |-> "Types", types |-> <<h>> \o r.types]

\* ValueNode::get_type that gives the inferred type for a node that carries
\* no type.
ValueRef_get_type_infer(values, ref) ==
    LET self == ValueRef_node(values, ref)
    IN  CASE self.tag = "Tuple" ->
                LET r == TypesOf(values, self.values)
                IN  IF IsPanic(r) THEN Panic ELSE TupleType(r.types)
          [] self.tag = "Str" -> PrimitiveStr
          [] self.tag = "Reference" ->
                LET inner == ValueRef_get_type(values, self.value)
                IN  IF IsPanic(inner) THEN Panic
                    ELSE ReferenceType(self.is_mut, <<>>, inner)
          [] self.tag = "Binding" -> self.ty
          [] self.tag = "Destructure" -> self.ty
          [] self.tag = "Invoke" -> INVOKES[self.invoke + 1].output
          [] OTHER -> Infer

\* ValueRef::get_type and ValueNode::get_type.
ValueRef_get_type(values, ref) ==
    LET self == ValueRef_node(values, ref)
    IN  CASE self.tag = "Tuple" ->
                LET r == TypesOf(values, self.values)
                IN  IF IsPanic(r) THEN Panic ELSE TupleType(r.types)
          [] self.tag = "Str" -> PrimitiveStr
          [] self.tag = "Reference" ->
                LET inner == ValueRef_get_type(values, self.value)
                IN  IF IsPanic(inner) THEN Panic
                    ELSE ReferenceType(self.is_mut, <<>>, inner)
          [] self.tag = "Binding" -> self.ty
          [] self.tag = "Destructure" -> self.ty
          [] self.tag = "Invoke" -> INVOKES[self.invoke + 1].output
          [] OTHER -> Panic


RECURSIVE ValueRef_get_type_name(_, _)
RECURSIVE FoldTypeNames(_, _, _)
\* The fold of the Tuple case: each element's name and ", " appended to
\* the accumulator, Panic if an element has no name.
FoldTypeNames(values, refs, acc) ==
    IF refs = <<>> THEN StrNode(acc)
    ELSE LET n == ValueRef_get_type_name(values, Head(refs))
         IN  IF IsPanic(n) THEN Panic
             ELSE FoldTypeNames(values, Tail(refs), acc \o n.str \o <<Tok(", ")>>)

\* ValueRef::get_type_name and ValueNode::get_type_name: a Str node.
ValueRef_get_type_name(values, ref) ==
    LET self == ValueRef_node(values, ref)
        NameOf(t) ==
            LET n == TypeNode_get_name(t)
            IN  IF IsPanic(n) THEN Panic ELSE StrNode(n.str)
    IN  CASE self.tag = "Tuple" ->
                LET types == FoldTypeNames(values, self.values, <<>>)
                IN  IF IsPanic(types) THEN Panic
                    ELSE StrNode(<<Tok("(")>>
                                 \o trim_end_matches(types.str, Tok(", "))
                                 \o <<Tok(")")>>)
          [] self.tag = "Str" -> StrNode(<<Tok("str")>>)
          [] self.tag = "DataStructure" -> StrNode(<<Tok(self.name)>>)
          [] self.tag = "Reference" -> ValueRef_get_type_name(values, self.value)
          [] self.tag = "Binding" -> NameOf(self.ty)
          [] self.tag = "Destructure" -> NameOf(self.ty)
          [] self.tag = "Invoke" -> NameOf(INVOKES[self.invoke + 1].output)
          [] OTHER -> Panic

(***************************************************************************)
(* The Value algebra (value.rs).  An operation takes the arena and returns *)
(* the arena it leaves, what it returns, and the pushes it made: the       *)
(* reference each index_push returned with the node given to it.           *)
(***************************************************************************)
ValueRet(values, index, pushes) ==
    [tag |-> "Value", values |-> values, index |-> index, pushes |-> pushes]

DataRet(values, data, pushes) ==
    [tag |-> "Data", values |-> values, data |-> data, pushes |-> pushes]

\* Self { index: VALUES.index_push(node) }
PushValue(values, node) ==
    LET p == index_push(values, node)
    IN  ValueRet(p.arena, p.ref, <<[ref |-> p.ref, node |-> node]>>)

RECURSIVE PushAll(_, _)
\* The pushes a map closure makes, one per field in field order.
PushAll(values, nodes) ==
    IF nodes = <<>> THEN [values |-> values, refs |-> <<>>, pushes |-> <<>>]
    ELSE LET p == index_push(values, Head(nodes))
             r == PushAll(p.arena, Tail(nodes))
         IN  [values |-> r.values,
              refs |-> <<p.ref>> \o r.refs,
              pushes |-> <<[ref |-> p.ref, node |-> Head(nodes)]>> \o r.pushes]

Value_new_tuple(values, vs) == PushValue(values, TupleNode(vs))

\* Value::new_reference that returns a receiver that is a reference as it
\* is.
Value_new_reference_collapse(values, self) ==
    IF ValueRef_node(values, self).tag = "Reference"
    THEN ValueRet(values, self, <<>>)
    ELSE PushValue(values, ReferenceNode(FALSE, self))

Value_new_reference(values, self) == PushValue(values, ReferenceNode(FALSE, self))

\* Value::new_reference_mut that pushes a shared reference.
Value_new_reference_mut_shared(values, self) ==
    PushValue(values, ReferenceNode(FALSE, self))

Value_new_reference_mut(values, self) ==
    PushValue(values, ReferenceNode(TRUE, self))

\* Value::dereference with the Dereference node written over the
\* receiver's node instead of appended.
Value_dereference_in_place(values, self) ==
    LET node == ValueRef_node(values, self)
    IN  IF node.tag = "Reference"
        THEN ValueRet(values, node.value, <<>>)
        ELSE ValueRet([values EXCEPT ![self + 1] = DereferenceNode(self)], self,
                      <<[ref |-> self, node |-> DereferenceNode(self)]>>)

Value_dereference(values, self) ==
    LET node == ValueRef_node(values, self)
    IN  IF node.tag = "Reference"
        THEN ValueRet(values, node.value, <<>>)
        ELSE PushValue(values, DereferenceNode(self))

Value_get_type_name(values, self) ==
    LET node == ValueRef_get_type_name(values, self)
    IN  IF IsPanic(node) THEN Panic ELSE PushValue(values, node)

RECURSIVE Value_as_data_literal(_, _)
\* Value::as_data without the branch for bindings.
Value_as_data_literal(values, self) ==
    LET node == ValueRef_node(values, self)
    IN  CASE node.tag = "DataStructure" ->
                DataRet(values,
                        Data_map(node.data,
                                 [i \in DOMAIN FieldSeq(node.data) |->
                                    FieldSeq(node.data)[i].element]),
                        <<>>)
          [] node.tag = "Reference" ->
                LET inner == Value_as_data_literal(values, node.value)
                IN  IF IsPanic(inner) THEN Panic
                    ELSE LET fields == FieldSeq(inner.data)
                             p == PushAll(inner.values,
                                    [i \in DOMAIN fields |->
                                        ReferenceNode(node.is_mut, fields[i].element)])
                         IN  DataRet(p.values, Data_map(inner.data, p.refs),
                                     inner.pushes \o p.pushes)
          [] OTHER -> Panic

RECURSIVE Value_as_data(_, _)
Value_as_data(values, self) ==
    LET node == ValueRef_node(values, self)
    IN  CASE node.tag = "DataStructure" ->
                DataRet(values,
                        Data_map(node.data,
                                 [i \in DOMAIN FieldSeq(node.data) |->
                                    FieldSeq(node.data)[i].element]),
                        <<>>)
          [] node.tag = "Reference" ->
                LET inner == Value_as_data(values, node.value)
                IN  IF IsPanic(inner) THEN Panic
                    ELSE LET fields == FieldSeq(inner.data)
                             p == PushAll(inner.values,
                                    [i \in DOMAIN fields |->
                                        ReferenceNode(node.is_mut, fields[i].element)])
                         IN  DataRet(p.values, Data_map(inner.data, p.refs),
                                     inner.pushes \o p.pushes)
          [] node.tag = "Binding" ->
                LET d == Type_as_data(node.ty)
                IN  IF IsPanic(d) THEN Panic
                    ELSE LET fields == FieldSeq(d)
                             p == PushAll(values,
                                    [i \in DOMAIN fields |->
                                        DestructureNode(self, fields[i].accessor,
                                                        fields[i].element)])
                         IN  DataRet(p.values, Data_map(d, p.refs), p.pushes)
          [] OTHER -> Panic

is_tuple_struct(data) == data.data.tag = "Struct" /\ data.data.shape = "Tuple"

\* Value::index that takes the positional accessor and the inferred type
\* for a field of a tuple struct.
Value_index_positional(values, self, index) ==
    LET node == ValueRef_node(values, self)
    IN  IF node.tag = "Tuple"
        THEN IF index < Len(node.values)
             THEN ValueRet(values, node.values[index + 1], <<>>)
             ELSE Panic
        ELSE PushValue(values, DestructureNode(self, AccessorIndex(index), Infer))

\* Value::index that fails when the shape of the receiver is not known.
Value_index_strict(values, self, index) ==
    LET node == ValueRef_node(values, self)
    IN  CASE node.tag = "Tuple" ->
                IF index < Len(node.values)
                THEN ValueRet(values, node.values[index + 1], <<>>)
                ELSE Panic
          [] node.tag = "Binding" /\ node.ty.tag = "Tuple" ->
                IF index >= Len(node.ty.types) THEN Panic
                ELSE PushValue(values,
                        DestructureNode(self, AccessorIndex(index),
                                        node.ty.types[index + 1]))
          [] node.tag = "DataStructure" /\ node.data.tag = "Struct"
                /\ node.data.shape = "Tuple" ->
                IF index >= Len(node.data.fields) THEN Panic
                ELSE LET field == node.data.fields[index + 1]
                         t == ValueRef_get_type(values, field.element)
                     IN  IF IsPanic(t) THEN Panic
                         ELSE PushValue(values,
                                DestructureNode(self, field.accessor, t))
          [] node.tag = "Binding" /\ node.ty.tag = "DataStructure"
                /\ is_tuple_struct(node.ty) ->
                IF index >= Len(node.ty.data.fields) THEN Panic
                ELSE LET field == node.ty.data.fields[index + 1]
                     IN  PushValue(values,
                            DestructureNode(self, field.accessor, field.element))
          [] OTHER -> Panic

Value_index(values, self, index) ==
    LET node == ValueRef_node(values, self)
    IN  CASE node.tag = "Tuple" ->
                IF index < Len(node.values)
                THEN ValueRet(values, node.values[index + 1], <<>>)
                ELSE Panic
          [] node.tag = "Binding" /\ node.ty.tag = "Tuple" ->
                IF index >= Len(node.ty.types) THEN Panic
                ELSE PushValue(values,
                        DestructureNode(self, AccessorIndex(index),
                                        node.ty.types[index + 1]))
          [] node.tag = "DataStructure" /\ node.data.tag = "Struct"
                /\ node.data.shape = "Tuple" ->
                IF index >= Len(node.data.fields) THEN Panic
                ELSE LET field == node.data.fields[index + 1]
                         t == ValueRef_get_type(values, field.element)
                     IN  IF IsPanic(t) THEN Panic
                         ELSE PushValue(values,
                                DestructureNode(self, field.accessor, t))
          [] node.tag = "Binding" /\ node.ty.tag = "DataStructure"
                /\ is_tuple_struct(node.ty) ->
                IF index >= Len(node.ty.data.fields) THEN Panic
                ELSE LET field == node.ty.data.fields[index + 1]
                     IN  PushValue(values,
                            DestructureNode(self, field.accessor, field.element))
          [] OTHER ->
                PushValue(values,
                    DestructureNode(self, AccessorIndex(index), Infer))

(***************************************************************************)
(* The use each operation makes of the value arena, as the list of its     *)
(* events in order: "borrow" when a VALUES.with_borrow closure is entered, *)
(* "release" when it is left, "push" at a VALUES.index_push.               *)
(***************************************************************************)
\* ValueRef::node that hands out the node with the borrow still held.
ValueRef_node_events_held(self) == <<"borrow">>

\* ValueRef::node: the node is cloned inside the closure.
ValueRef_node_events(self) == <<"borrow", "release">>

RECURSIVE ValueRef_get_type_events(_, _)
RECURSIVE TypesOf_events(_, _)
\* The map of the Tuple case of get_type; it ends at the first element
\* that has no type.
TypesOf_events(values, refs) ==
    IF refs = <<>> THEN <<>>
    ELSE ValueRef_get_type_events(values, Head(refs))
            \o IF IsPanic(ValueRef_get_type(values, Head(refs))) THEN <<>>
               ELSE TypesOf_events(values, Tail(refs))

\* ValueRef::get_type: ValueNode::get_type runs inside the closure and
\* borrows again for each value it recurses into.
ValueRef_get_type_events(values, ref) ==
    LET self == ValueRef_node(values, ref)
    IN  <<"borrow">>
            \o (CASE self.tag = "Tuple" -> TypesOf_events(values, self.values)
                  [] self.tag = "Reference" ->
                        ValueRef_get_type_events(values, self.value)
                  [] OTHER -> <<>>)
            \o <<"release">>

RECURSIVE ValueRef_get_type_name_events(_, _)
RECURSIVE ValueNode_get_type_name_events(_, _)
RECURSIVE FoldTypeNames_events(_, _)
\* The fold of the Tuple case of get_type_name; it ends at the first
\* element that has no name.
FoldTypeNames_events(values, refs) ==
    IF refs = <<>> THEN <<>>
    ELSE ValueRef_get_type_name_events(values, Head(refs))
            \o IF IsPanic(ValueRef_get_type_name(values, Head(refs))) THEN <<>>
               ELSE FoldTypeNames_events(values, Tail(refs))

\* ValueNode::get_type_name on a node.
ValueNode_get_type_name_events(values, node) ==
    CASE node.tag = "Tuple" -> FoldTypeNames_events(values, node.values)
      [] node.tag = "Reference" ->
            ValueRef_get_type_name_events(values, node.value)
      [] OTHER -> <<>>

\* ValueRef::get_type_name: ValueNode::get_type_name runs inside the
\* closure.
ValueRef_get_type_name_events(values, ref) ==
    <<"borrow">>
        \o ValueNode_get_type_name_events(values, ValueRef_node(values, ref))
        \o <<"release">>

\* One push per field of a Data, made by the closure given to Data::map.
MapPushes(data) == [i \in DOMAIN FieldSeq(data) |-> "push"]

Value_new_tuple_events(values, vs) == <<"push">>

Value_new_reference_events(values, self) == <<"push">>

Value_new_reference_mut_events(values, self) == <<"push">>

Value_dereference_events(values, self) ==
    ValueRef_node_events(self)
        \o IF ValueRef_node(values, self).tag = "Reference" THEN <<>>
           ELSE <<"push">>

\* Value::get_type_name: the walk runs on the node that node() returned.
Value_get_type_name_events(values, self) ==
    ValueRef_node_events(self)
        \o ValueNode_get_type_name_events(values, ValueRef_node(values, self))
        \o IF IsPanic(ValueRef_get_type_name(values, self)) THEN <<>>
           ELSE <<"push">>

RECURSIVE Value_as_data_events(_, _)
Value_as_data_events(values, self) ==
    LET node == ValueRef_node(values, self)
        Mapped(inner) ==
            IF IsPanic(inner) THEN <<>> ELSE MapPushes(inner.data)
        Destructured(d) == IF IsPanic(d) THEN <<>> ELSE MapPushes(d)
    IN  ValueRef_node_events(self)
            \o (CASE node.tag = "Reference" ->
                        Value_as_data_events(values, node.value)
                            \o Mapped(Value_as_data(values, node.value))
                  [] node.tag = "Binding" -> Destructured(Type_as_data(node.ty))
                  [] OTHER -> <<>>)

Value_index_events(values, self, index) ==
    LET node == ValueRef_node(values, self)
    IN  ValueRef_node_events(self)
            \o (CASE node.tag = "Tuple" -> <<>>
                  [] node.tag = "Binding" /\ node.ty.tag = "Tuple" ->
                        IF index >= Len(node.ty.types) THEN <<>> ELSE <<"push">>
                  [] node.tag = "DataStructure" /\ node.data.tag = "Struct"
                        /\ node.data.shape = "Tuple" ->
                        IF index >= Len(node.data.fields) THEN <<>>
                        ELSE ValueRef_get_type_events(values,
                                    node.data.fields[index + 1].element)
                                \o IF IsPanic(ValueRef_get_type(values,
                                        node.data.fields[index + 1].element))
                                   THEN <<>> ELSE <<"push">>
                  [] node.tag = "Binding" /\ node.ty.tag = "DataStructure"
                        /\ is_tuple_struct(node.ty) ->
                        IF index >= Len(node.ty.data.fields) THEN <<>>
                        ELSE <<"push">>
                  [] OTHER -> <<"push">>)

\* Module::invoke_macro: its one push to the value arena.
Module_invoke_macro_events(values, vs) == <<"push">>

(***************************************************************************)
(* Module (module.rs).  A path is a list of segments and the global flag.  *)
(***************************************************************************)
Module_root == [path |-> [path |-> <<>>, global |-> TRUE]]

\* Path::get_simple_path: the path with one more segment, which has no
\* generic arguments.
Path_get_simple_path(path, name) ==
    [path EXCEPT !.path = Append(@, [ident |-> name, args |-> <<>>])]

Module_get_module(self, name) == [path |-> Path_get_simple_path(self.path, name)]

MacroInvoke(macro_path, args) == [macro_path |-> macro_path, args |-> args]

\* Module::invoke_macro that records the arguments last first.
Module_invoke_macro_reversed(self, values, macros, name, vs) ==
    LET macro_path == Path_get_simple_path(self.path, name)
        invoke == index_push(macros,
                    MacroInvoke(macro_path,
                                [i \in DOMAIN vs |-> vs[Len(vs) + 1 - i]]))
        r == PushValue(values, MacroInvocationNode(invoke.ref))
    IN  [tag |-> "Value", values |-> r.values, macros |-> invoke.arena,
         index |-> r.index, pushes |-> r.pushes]

Module_invoke_macro(self, values, macros, name, vs) ==
    LET macro_path == Path_get_simple_path(self.path, name)
        invoke == index_push(macros, MacroInvoke(macro_path, vs))
        r == PushValue(values, MacroInvocationNode(invoke.ref))
    IN  [tag |-> "Value", values |-> r.values, macros |-> invoke.arena,
         index |-> r.index, pushes |-> r.pushes]

(***************************************************************************)
(* Syntax trees handed over by the external parser (syn).  parse_str is    *)
(* modelled on the strings the caller passes, by the tree it returns.      *)
(*   generic parameter  [kind: Type | Lifetime | Const, ident, bounds]     *)
(*   type-param bound   [kind: Trait, lifetimes, path] (lifetimes is the   *)
(*                      for<..> list) or [kind: Lifetime, ident]           *)
(*   path               [ident, args]: one segment and its arguments       *)
(*   generic argument   [kind: Type, ty] or [kind: Lifetime, ident]        *)
(*   type               [kind: Path, path] or                              *)
(*                      [kind: Reference, lifetime, mutability, elem]      *)
(*   where predicate    [kind: Type, lifetimes, bounded_ty, bounds] or     *)
(*                      [kind: Lifetime, lifetime, bounds]                 *)
(***************************************************************************)
SynPath(ident, args) == [ident |-> ident, args |-> args]

SynTypePath(ident) == [kind |-> "Path", path |-> SynPath(ident, <<>>)]

SynTraitBound(lifetimes, path) ==
    [kind |-> "Trait", lifetimes |-> lifetimes, path |-> path]

SynTypeParam(ident, bounds) == [kind |-> "Type", ident |-> ident, bounds |-> bounds]

SynLifetimeDef(ident, bounds) ==
    [kind |-> "Lifetime", ident |-> ident, bounds |-> bounds]

SynPredicateType(lifetimes, bounded_ty, bounds) ==
    [kind |-> "Type", lifetimes |-> lifetimes, bounded_ty |-> bounded_ty,
     bounds |-> bounds]

SynPredicateLifetime(lifetime, bounds) ==
    [kind |-> "Lifetime", lifetime |-> lifetime, bounds |-> bounds]

\* The parameter declarations a caller passes to set_generic_params.
ParamStrings == {"T", "U", "'a", "T: Into<U>", "const N: usize"}

\* parse_str::<syn::GenericParam>
ParseGenericParam(str) ==
    CASE str = "T" -> SynTypeParam("T", <<>>)
      [] str = "U" -> SynTypeParam("U", <<>>)
      [] str = "'a" -> SynLifetimeDef("'a", <<>>)
      [] str = "T: Into<U>" ->
            SynTypeParam("T",
                <<SynTraitBound(<<>>,
                    SynPath("Into", <<[kind |-> "Type", ty |-> SynTypePath("U")]>>))>>)
      [] str = "const N: usize" -> [kind |-> "Const", ident |-> "N", bounds |-> <<>>]

\* The where-clause predicates a caller passes to set_generic_constraints.
ClauseStrings == {"T: Clone", "'a: 'static", "'a: 'c", "T: for<'b> Get<'b>"}

\* parse_str::<syn::WherePredicate>
ParseWherePredicate(str) ==
    CASE str = "T: Clone" ->
            SynPredicateType(<<>>, SynTypePath("T"),
                <<SynTraitBound(<<>>, SynPath("Clone", <<>>))>>)
      [] str = "'a: 'static" -> SynPredicateLifetime("'a", <<"'static">>)
      [] str = "'a: 'c" -> SynPredicateLifetime("'a", <<"'c">>)
      [] str = "T: for<'b> Get<'b>" ->
            SynPredicateType(<<>>, SynTypePath("T"),
                <<SynTraitBound(<<"'b">>,
                    SynPath("Get", <<[kind |-> "Lifetime", ident |-> "'b"]>>))>>)

(***************************************************************************)
(* The generic-parameter model (generics.rs).  A translation threads       *)
(* st = [pm, lt, tp]: the lookup table it fills and the two counters,      *)
(* LIFETIMES and TYPE_PARAMS.  It returns [tag |-> "Ok", st, val], or      *)
(* Panic.  A Lifetime or TypeParam value is the number it carries.         *)
(***************************************************************************)
Ok(st, val) == [tag |-> "Ok", st |-> st, val |-> val]

\* GlobalCounter::count: the counter's value, and the counter advanced.
GlobalCounter_count(counter) == [val |-> counter, next |-> counter + 1]

SynParamMap_insert(pm, key, value) ==
    [k \in DOMAIN pm \cup {key} |-> IF k = key THEN value ELSE pm[k]]

\* BTreeMap::append: every entry of other, then the entries of self whose
\* key other does not hold.
SynParamMap_append(pm, other) ==
    [k \in DOMAIN pm \cup DOMAIN other |->
        IF k \in DOMAIN other THEN other[k] ELSE pm[k]]

\* SynParamMap::get_lifetime that yields the static lifetime for a name the
\* table does not hold.
SynParamMap_get_lifetime_lenient(pm, ident) ==
    IF ident \in DOMAIN pm /\ pm[ident].kind = "Lifetime"
    THEN [tag |-> "Ok", val |-> pm[ident].n]
    ELSE [tag |-> "Ok", val |-> STATIC_LIFETIME]

\* SynParamMap::get_lifetime: [tag |-> "Ok", val] or Panic.
SynParamMap_get_lifetime(pm, ident) ==
    IF ident \in DOMAIN pm /\ pm[ident].kind = "Lifetime"
    THEN [tag |-> "Ok", val |-> pm[ident].n]
    ELSE Panic

RECURSIVE GetLifetimes(_, _)
\* The map of get_lifetime over a list of names.
GetLifetimes(pm, idents) ==
    IF idents = <<>> THEN [tag |-> "Ok", val |-> <<>>]
    ELSE LET h == SynParamMap_get_lifetime(pm, Head(idents))
             r == GetLifetimes(pm, Tail(idents))
         IN  IF IsPanic(h) \/ IsPanic(r) THEN Panic
             ELSE [tag |-> "Ok", val |-> <<h.val>> \o r.val]

RECURSIVE syn_to_bound_lifetimes(_, _)
syn_to_bound_lifetimes(lifetimes, st) ==
    IF lifetimes = <<>> THEN Ok(st, <<>>)
    ELSE LET c == GlobalCounter_count(st.lt)
             st1 == [st EXCEPT !.lt = c.next,
                               !.pm = SynParamMap_insert(@, Head(lifetimes),
                                                         LifetimeParam(c.val))]
             r == syn_to_bound_lifetimes(Tail(lifetimes), st1)
         IN  Ok(r.st, <<c.val>> \o r.val)

TraitBound(lifetimes, path) ==
    [kind |-> "Trait", lifetimes |-> lifetimes, path |-> path]

LifetimeBound(lifetime) == [kind |-> "Lifetime", lifetime |-> lifetime]

PathType(path) == [tag |-> "Path", path |-> path]

RECURSIVE Type_syn_to_type(_, _)
RECURSIVE Path_syn_to_path(_, _)
RECURSIVE GenericArgument_syn_to_generic_argument(_, _)
RECURSIVE SynToGenericArguments(_, _)
RECURSIVE syn_to_type_param_bound(_, _)
RECURSIVE syn_to_type_param_bounds(_, _)

\* Type::syn_to_type: val is a TypeNode.
Type_syn_to_type(t, st) ==
    CASE t.kind = "Path" ->
            IF t.path.args = <<>> /\ t.path.ident \in DOMAIN st.pm
            THEN LET param == st.pm[t.path.ident]
                 IN  IF param.kind = "Type"
                     THEN Ok(st, TypeParamType(param.n))
                     ELSE Panic
            ELSE LET Then(r) ==
                         IF IsPanic(r) THEN Panic ELSE Ok(r.st, PathType(r.val))
                 IN  Then(Path_syn_to_path(t.path, st))
      [] t.kind = "Reference" ->
            LET Then(inner) ==
                    IF IsPanic(inner) THEN Panic
                    ELSE LET l == GetLifetimes(inner.st.pm, t.lifetime)
                         IN  IF IsPanic(l) THEN Panic
                             ELSE Ok(inner.st,
                                     ReferenceType(t.mutability, l.val, inner.val))
            IN  Then(Type_syn_to_type(t.elem, st))
      [] OTHER -> Panic

\* Path::syn_to_path: the segment with its generic arguments translated.
Path_syn_to_path(path, st) ==
    LET Then(r) ==
            IF IsPanic(r) THEN Panic
            ELSE Ok(r.st, [path |-> <<[ident |-> path.ident, args |-> r.val]>>,
                           global |-> FALSE])
    IN  Then(SynToGenericArguments(path.args, st))

GenericArgument_syn_to_generic_argument(arg, st) ==
    CASE arg.kind = "Type" ->
            LET Then(r) ==
                    IF IsPanic(r) THEN Panic
                    ELSE Ok(r.st, [kind |-> "Type", ty |-> r.val])
            IN  Then(Type_syn_to_type(arg.ty, st))
      [] arg.kind = "Lifetime" ->
            LET l == SynParamMap_get_lifetime(st.pm, arg.ident)
            IN  IF IsPanic(l) THEN Panic
                ELSE Ok(st, [kind |-> "Lifetime", lifetime |-> l.val])
      [] OTHER -> Panic

\* The arguments of a path segment, translated in order.
SynToGenericArguments(args, st) ==
    IF args = <<>> THEN Ok(st, <<>>)
    ELSE LET Then(h) ==
                 IF IsPanic(h) THEN Panic
                 ELSE LET r == SynToGenericArguments(Tail(args), h.st)
                      IN  IF IsPanic(r) THEN Panic
                          ELSE Ok(r.st, <<h.val>> \o r.val)
         IN  Then(GenericArgument_syn_to_generic_argument(Head(args), st))

syn_to_type_param_bound(bound, st) ==
    IF bound.kind = "Trait"
    THEN LET l == syn_to_bound_lifetimes(bound.lifetimes, st)
             Then(r) == IF IsPanic(r) THEN Panic
                        ELSE Ok(r.st, TraitBound(l.val, r.val))
         IN  Then(Path_syn_to_path(bound.path, l.st))
    ELSE LET l == SynParamMap_get_lifetime(st.pm, bound.ident)
         IN  IF IsPanic(l) THEN Panic ELSE Ok(st, LifetimeBound(l.val))

syn_to_type_param_bounds(bounds, st) ==
    IF bounds = <<>> THEN Ok(st, <<>>)
    ELSE LET Then(h) ==
                 IF IsPanic(h) THEN Panic
                 ELSE LET r == syn_to_type_param_bounds(Tail(bounds), h.st)
                      IN  IF IsPanic(r) THEN Panic
                          ELSE Ok(r.st, <<h.val>> \o r.val)
         IN  Then(syn_to_type_param_bound(Head(bounds), st))

PredicateType(lifetimes, bounded_ty, bounds) ==
    [kind |-> "Type", lifetimes |-> lifetimes, bounded_ty |-> bounded_ty,
     bounds |-> bounds]

LifetimeDef(lifetime, bounds) ==
    [kind |-> "Lifetime", lifetime |-> lifetime, bounds |-> bounds]

\* One step of syn_where_predicates_to_generic_constraints: the closure
\* applied to one predicate.
WherePredicateToConstraint(predicate, st) ==
    CASE predicate.kind = "Type" ->
            LET l == syn_to_bound_lifetimes(predicate.lifetimes, st)
                Bounds(t, b) ==
                    IF IsPanic(b) THEN Panic
                    ELSE Ok(b.st, PredicateType(l.val, t.val, b.val))
                Then(t) ==
                    IF IsPanic(t) THEN Panic
                    ELSE Bounds(t, syn_to_type_param_bounds(predicate.bounds, t.st))
            IN  Then(Type_syn_to_type(predicate.bounded_ty, l.st))
      [] predicate.kind = "Lifetime" ->
            LET l == SynParamMap_get_lifetime(st.pm, predicate.lifetime)
                b == GetLifetimes(st.pm, predicate.bounds)
            IN  IF IsPanic(l) \/ IsPanic(b) THEN Panic
                ELSE Ok(st, LifetimeDef(l.val, b.val))
      [] OTHER -> Panic

RECURSIVE syn_where_predicates_to_generic_constraints(_, _)
syn_where_predicates_to_generic_constraints(where_predicates, st) ==
    IF where_predicates = <<>> THEN Ok(st, <<>>)
    ELSE LET Then(h) ==
                 IF IsPanic(h) THEN Panic
                 ELSE LET r == syn_where_predicates_to_generic_constraints(
                                    Tail(where_predicates), h.st)
                      IN  IF IsPanic(r) THEN Panic
                          ELSE Ok(r.st, <<h.val>> \o r.val)
         IN  Then(WherePredicateToConstraint(Head(where_predicates), st))

\* param_mapping that mints a type-parameter symbol for every declaration.
param_mapping_as_type(param, st) ==
    IF param.kind \in {"Type", "Lifetime"}
    THEN LET c == GlobalCounter_count(st.tp)
         IN  Ok([st EXCEPT !.tp = c.next,
                           !.pm = SynParamMap_insert(@, param.ident,
                                                     TypeParam(c.val))], <<>>)
    ELSE Panic

RECURSIVE ParamMappings(_, _)
\* param_mapping: a fresh symbol of the declaration's kind, registered
\* under the declared name.
param_mapping(param, st) ==
    CASE param.kind = "Type" ->
            LET c == GlobalCounter_count(st.tp)
            IN  Ok([st EXCEPT !.tp = c.next,
                              !.pm = SynParamMap_insert(@, param.ident,
                                                        TypeParam(c.val))], <<>>)
      [] param.kind = "Lifetime" ->
            LET c == GlobalCounter_count(st.lt)
            IN  Ok([st EXCEPT !.lt = c.next,
                              !.pm = SynParamMap_insert(@, param.ident,
                                                        LifetimeParam(c.val))], <<>>)
      [] OTHER -> Panic

\* The for_each of param_mapping over the declarations.
ParamMappings(params, st) ==
    IF params = <<>> THEN Ok(st, <<>>)
    ELSE LET h == param_mapping(Head(params), st)
         IN  IF IsPanic(h) THEN Panic ELSE ParamMappings(Tail(params), h.st)

RECURSIVE HoistBounds(_, _, _)
\* The second pass of syn_to_generic_params: each declaration's symbol in
\* order, its bounds hoisted into constraints.  val is [params, constraints].
HoistBounds(params, st, acc) ==
    IF params = <<>> THEN Ok(st, acc)
    ELSE LET decl == Head(params)
             param == st.pm[decl.ident]
         IN  CASE decl.kind = "Type" ->
                    IF decl.bounds = <<>>
                    THEN HoistBounds(Tail(params), st,
                            [acc EXCEPT !.params = Append(@, param)])
                    ELSE LET Then(b) ==
                                 IF param.kind # "Type" \/ IsPanic(b) THEN Panic
                                 ELSE HoistBounds(Tail(params), b.st,
                                        [params |-> Append(acc.params, param),
                                         constraints |->
                                            Append(acc.constraints,
                                                PredicateType(<<>>,
                                                    TypeParamType(param.n),
                                                    b.val))])
                         IN  Then(syn_to_type_param_bounds(decl.bounds, st))
               [] decl.kind = "Lifetime" ->
                    IF decl.bounds = <<>>
                    THEN HoistBounds(Tail(params), st,
                            [acc EXCEPT !.params = Append(@, param)])
                    ELSE LET l == SynParamMap_get_lifetime(st.pm, decl.ident)
                             b == GetLifetimes(st.pm, decl.bounds)
                         IN  IF IsPanic(l) \/ IsPanic(b) THEN Panic
                             ELSE HoistBounds(Tail(params), st,
                                    [params |-> Append(acc.params, param),
                                     constraints |->
                                        Append(acc.constraints,
                                               LifetimeDef(l.val, b.val))])
               [] OTHER -> Panic

\* syn_to_generic_params in one pass: each declaration is registered and
\* its bounds hoisted before the next declaration is looked at.
syn_to_generic_params_one_pass(params, lt, tp) ==
    LET RECURSIVE OnePass(_, _, _)
        OnePass(ps, st, acc) ==
            IF ps = <<>> THEN Ok(st, acc)
            ELSE LET m == param_mapping(Head(ps), st)
                 IN  IF IsPanic(m) THEN Panic
                     ELSE LET h == HoistBounds(<<Head(ps)>>, m.st, acc)
                          IN  IF IsPanic(h) THEN Panic
                              ELSE OnePass(Tail(ps), h.st, h.val)
    IN  OnePass(params, [pm |-> SynParamMap_new, lt |-> lt, tp |-> tp],
                [params |-> <<>>, constraints |-> <<>>])

\* syn_to_generic_params: val is [params, constraints]; the lookup table
\* is st.pm, a fresh table filled by the call.
syn_to_generic_params(params, lt, tp) ==
    LET st0 == [pm |-> SynParamMap_new, lt |-> lt, tp |-> tp]
        Then(m) ==
            IF IsPanic(m) THEN Panic
            ELSE HoistBounds(params, m.st, [params |-> <<>>, constraints |-> <<>>])
    IN  Then(ParamMappings(params, st0))

\* Generics::set_generic_params that passes over a const declaration.
Generics_set_generic_params_skip_const(self, params, lt, tp) ==
    LET NotConst(param) == param.kind # "Const"
        syn_params ==
            SelectSeq([i \in DOMAIN params |-> ParseGenericParam(params[i])],
                      NotConst)
        Then(r) ==
            IF IsPanic(r) THEN Panic
            ELSE Ok(r.st,
                    [params |-> self.params \o r.val.params,
                     constraints |-> self.constraints \o r.val.constraints,
                     param_map |-> SynParamMap_append(self.param_map, r.st.pm)])
    IN  Then(syn_to_generic_params(syn_params, lt, tp))

\* Generics::set_generic_params: val is the Generics the call leaves.
Generics_set_generic_params(self, params, lt, tp) ==
    LET syn_params == [i \in DOMAIN params |-> ParseGenericParam(params[i])]
        Then(r) ==
            IF IsPanic(r) THEN Panic
            ELSE Ok(r.st,
                    [params |-> self.params \o r.val.params,
                     constraints |-> self.constraints \o r.val.constraints,
                     param_map |-> SynParamMap_append(self.param_map, r.st.pm)])
    IN  Then(syn_to_generic_params(syn_params, lt, tp))

\* Generics::set_generic_constraints: val is the Generics the call leaves.
Generics_set_generic_constraints(self, constraints, lt, tp) ==
    LET syn_constraints ==
            [i \in DOMAIN constraints |-> ParseWherePredicate(constraints[i])]
        Then(r) ==
            IF IsPanic(r) THEN Panic
            ELSE Ok(r.st,
                    [params |-> self.params,
                     constraints |-> self.constraints \o r.val,
                     param_map |-> r.st.pm])
    IN  Then(syn_where_predicates_to_generic_constraints(syn_constraints,
                [pm |-> self.param_map, lt |-> lt, tp |-> tp]))

(***************************************************************************)
(* Fresh-generics renaming (generics.rs, ty.rs).  A ParamMap is a function *)
(* from symbols to symbols.  A clone returns the renamed item, or Panic    *)
(* (a failed unwrap, an unimplemented case).                               *)
(***************************************************************************)
ParamMap_new == [k \in {StaticParam} |-> StaticParam]

\* ParamMap::insert that keeps the entry a key already has.
ParamMap_insert_keep(param_map, key, value) ==
    [k \in DOMAIN param_map \cup {key} |->
        IF k \in DOMAIN param_map THEN param_map[k] ELSE value]

ParamMap_insert(param_map, key, value) ==
    [k \in DOMAIN param_map \cup {key} |-> IF k = key THEN value ELSE param_map[k]]

\* A list of clones: Panic if one of them is, else the renamed items.
Collect(results) ==
    IF \E i \in DOMAIN results : IsPanic(results[i]) THEN Panic
    ELSE [tag |-> "Ok", val |-> [i \in DOMAIN results |-> results[i].val]]

\* Lifetime::clone_with_fresh_generics: [tag |-> "Ok", val] or Panic.
Lifetime_clone_with_fresh_generics(self, param_map) ==
    IF LifetimeParam(self) \in DOMAIN param_map
        /\ param_map[LifetimeParam(self)].kind = "Lifetime"
    THEN [tag |-> "Ok", val |-> param_map[LifetimeParam(self)].n]
    ELSE Panic

CloneLifetimes(lifetimes, param_map) ==
    Collect([i \in DOMAIN lifetimes |->
                Lifetime_clone_with_fresh_generics(lifetimes[i], param_map)])

\* A cloned TypeNode under the tag of a result.
Wrap(t) == IF IsPanic(t) THEN Panic ELSE [tag |-> "Ok", val |-> t]

RECURSIVE TypeNode_clone_with_fresh_generics(_, _)
RECURSIVE Path_clone_with_fresh_generics(_, _)
RECURSIVE GenericArgument_clone_with_fresh_generics(_, _)
RECURSIVE TypeParamBound_clone_with_fresh_generics(_, _)

\* TypeNode::clone_with_fresh_generics: a TypeNode or Panic.
TypeNode_clone_with_fresh_generics(self, param_map) ==
    CASE self.tag = "Infer" -> Infer
      [] self.tag = "Tuple" ->
            LET Then(r) == IF IsPanic(r) THEN Panic ELSE TupleType(r.val)
            IN  Then(Collect([i \in DOMAIN self.types |->
                        Wrap(TypeNode_clone_with_fresh_generics(self.types[i],
                                                                param_map))]))
      [] self.tag = "PrimitiveStr" -> PrimitiveStr
      [] self.tag = "Reference" ->
            LET l == CloneLifetimes(self.lifetime, param_map)
                inner == TypeNode_clone_with_fresh_generics(self.inner, param_map)
            IN  IF IsPanic(l) \/ IsPanic(inner) THEN Panic
                ELSE ReferenceType(self.is_mut, l.val, inner)
      [] self.tag = "Dereference" ->
            LET inner == TypeNode_clone_with_fresh_generics(self.inner, param_map)
            IN  IF IsPanic(inner) THEN Panic ELSE DereferenceType(inner)
      [] self.tag = "TraitObject" ->
            LET Then(r) == IF IsPanic(r) THEN Panic
                           ELSE [tag |-> "TraitObject", bounds |-> r.val]
            IN  Then(Collect([i \in DOMAIN self.bounds |->
                        TypeParamBound_clone_with_fresh_generics(self.bounds[i],
                                                                 param_map)]))
      [] self.tag = "DataStructure" -> Panic
      [] self.tag = "Path" ->
            LET Then(r) == IF IsPanic(r) THEN Panic ELSE PathType(r.val)
            IN  Then(Path_clone_with_fresh_generics(self.path, param_map))
      [] self.tag = "TypeParam" ->
            IF TypeParam(self.param) \in DOMAIN param_map
                /\ param_map[TypeParam(self.param)].kind = "Type"
            THEN TypeParamType(param_map[TypeParam(self.param)].n)
            ELSE Panic

\* Path::clone_with_fresh_generics: every segment's generic arguments
\* renamed (GenericArguments::clone_with_fresh_generics).
Path_clone_with_fresh_generics(self, param_map) ==
    LET Segment(i, r) ==
            IF IsPanic(r) THEN Panic
            ELSE [tag |-> "Ok",
                  val |-> [ident |-> self.path[i].ident, args |-> r.val]]
        Then(r) ==
            IF IsPanic(r) THEN Panic
            ELSE [tag |-> "Ok", val |-> [self EXCEPT !.path = r.val]]
    IN  Then(Collect([i \in DOMAIN self.path |->
                Segment(i, Collect([j \in DOMAIN self.path[i].args |->
                                GenericArgument_clone_with_fresh_generics(
                                    self.path[i].args[j], param_map)]))]))

GenericArgument_clone_with_fresh_generics(self, param_map) ==
    CASE self.kind = "Type" ->
            LET Then(t) ==
                    IF IsPanic(t) THEN Panic
                    ELSE [tag |-> "Ok", val |-> [kind |-> "Type", ty |-> t]]
            IN  Then(TypeNode_clone_with_fresh_generics(self.ty, param_map))
      [] self.kind = "Lifetime" ->
            LET l == Lifetime_clone_with_fresh_generics(self.lifetime, param_map)
            IN  IF IsPanic(l) THEN Panic
                ELSE [tag |-> "Ok", val |-> [kind |-> "Lifetime", lifetime |-> l.val]]
      [] OTHER -> Panic

TypeParamBound_clone_with_fresh_generics(self, param_map) ==
    IF self.kind = "Lifetime"
    THEN LET l == Lifetime_clone_with_fresh_generics(self.lifetime, param_map)
         IN  IF IsPanic(l) THEN Panic
             ELSE [tag |-> "Ok", val |-> LifetimeBound(l.val)]
    ELSE LET l == CloneLifetimes(self.lifetimes, param_map)
             Then(path) ==
                 IF IsPanic(l) \/ IsPanic(path) THEN Panic
                 ELSE [tag |-> "Ok", val |-> TraitBound(l.val, path.val)]
         IN  Then(Path_clone_with_fresh_generics(self.path, param_map))

GenericConstraint_clone_with_fresh_generics(self, param_map) ==
    IF self.kind = "Type"
    THEN LET l == CloneLifetimes(self.lifetimes, param_map)
             Then(t, b) ==
                 IF IsPanic(l) \/ IsPanic(t) \/ IsPanic(b) THEN Panic
                 ELSE [tag |-> "Ok", val |-> PredicateType(l.val, t, b.val)]
         IN  Then(TypeNode_clone_with_fresh_generics(self.bounded_ty, param_map),
                  Collect([i \in DOMAIN self.bounds |->
                    TypeParamBound_clone_with_fresh_generics(self.bounds[i],
                                                             param_map)]))
    ELSE LET l == Lifetime_clone_with_fresh_generics(self.lifetime, param_map)
             b == CloneLifetimes(self.bounds, param_map)
         IN  IF IsPanic(l) \/ IsPanic(b) THEN Panic
             ELSE [tag |-> "Ok", val |-> LifetimeDef(l.val, b.val)]

\* SynParamMap::clone_with_fresh_generics with the symbols copied as they
\* are.
SynParamMap_clone_with_fresh_generics_copy(self, param_map) == self

\* SynParamMap::clone_with_fresh_generics: a new table, holding every name
\* whose symbol the substitution renames.
SynParamMap_clone_with_fresh_generics(self, param_map) ==
    LET kept == {key \in DOMAIN self : self[key] \in DOMAIN param_map}
    IN  [key \in DOMAIN SynParamMap_new \cup kept |->
            IF key \in kept THEN param_map[self[key]] ELSE SynParamMap_new[key]]

\* GenericParam::get_fresh_param with the parameter itself returned.
GenericParam_get_fresh_param_same(self, lt, tp) ==
    IF self.kind = "Const" THEN Panic
    ELSE [tag |-> "Ok", val |-> self, lt |-> lt, tp |-> tp]

\* GenericParam::get_fresh_param: a symbol of the same kind from its
\* counter; val is the symbol, lt and tp the counters after the call.
GenericParam_get_fresh_param(self, lt, tp) ==
    CASE self.kind = "Type" ->
            LET c == GlobalCounter_count(tp)
            IN  [tag |-> "Ok", val |-> TypeParam(c.val), lt |-> lt, tp |-> c.next]
      [] self.kind = "Lifetime" ->
            LET c == GlobalCounter_count(lt)
            IN  [tag |-> "Ok", val |-> LifetimeParam(c.val), lt |-> c.next, tp |-> tp]
      [] OTHER -> Panic

RECURSIVE FreshParams(_, _, _, _)
\* The first field of Generics::clone_with_fresh_generics: every parameter
\* in order given a fresh symbol, which the substitution records.
FreshParams(params, param_map, lt, tp) ==
    IF params = <<>>
    THEN [tag |-> "Ok", params |-> <<>>, param_map |-> param_map,
          lt |-> lt, tp |-> tp]
    ELSE LET n == GenericParam_get_fresh_param(Head(params), lt, tp)
         IN  IF IsPanic(n) THEN Panic
             ELSE LET r == FreshParams(Tail(params),
                                ParamMap_insert(param_map, Head(params), n.val),
                                n.lt, n.tp)
                  IN  IF IsPanic(r) THEN Panic
                      ELSE [r EXCEPT !.params = <<n.val>> \o @]

\* Generics::clone_with_fresh_generics: [tag |-> "Ok", generics,
\* param_map, lt, tp] or Panic.
Generics_clone_with_fresh_generics(self, lt, tp) ==
    LET p == FreshParams(self.params, ParamMap_new, lt, tp)
        Then(c) ==
            IF IsPanic(c) THEN Panic
            ELSE [tag |-> "Ok",
                  generics |->
                     [params |-> p.params,
                      constraints |-> c.val,
                      param_map |->
                         SynParamMap_clone_with_fresh_generics(
                             self.param_map, p.param_map)],
                  param_map |-> p.param_map,
                  lt |-> p.lt, tp |-> p.tp]
    IN  IF IsPanic(p) THEN Panic
        ELSE Then(Collect([i \in DOMAIN self.constraints |->
                        GenericConstraint_clone_with_fresh_generics(
                            self.constraints[i], p.param_map)]))

(***************************************************************************)
(* State.                                                                  *)
(*   part    the part of the library the caller exercises in this run: the *)
(*           Type algebra, the Value algebra or the generics.  The parts   *)
(*           share no state.                                               *)
(*   ty      the Type the caller holds                                     *)
(*   tcall   the last call of the Type algebra: its name, its receiver,    *)
(*           its index argument and its list argument                      *)
(*   tdata   the Data<Type> the last call returned, NoData if none         *)
(*   tfatal  a call of the Type algebra aborted the pass                   *)
(*   VALUES  the value arena                                               *)
(*   MACROS  the macro invocation arena                                    *)
(*   val     the Value the caller holds (its index)                        *)
(*   vcall   the last call of the Value algebra                            *)
(*   vdata   the Data<Value> the last call returned, NoData if none        *)
(*   vfatal  a call of the Value algebra aborted the pass                  *)
(*   events  the borrows, releases and pushes of VALUES the last call of    *)
(*           the Value algebra made, in order                              *)
(*   pushed  every push into VALUES so far: the reference returned and the *)
(*           node given                                                    *)
(*   LIFETIMES, TYPE_PARAMS  the two counters that mint symbols            *)
(*   generics  the Generics the caller builds                              *)
(*   gcalls  the calls made on generics since Generics::default, in order  *)
(*   gclones the fresh-generics clones taken: the Generics cloned, the     *)
(*           Generics produced and the substitution returned               *)
(*   gitems  the declarations, clauses, clones and mints of this run       *)
(*   gfatal  a call on the generics aborted the pass                       *)
(***************************************************************************)
VARIABLES part, ty, tcall, tdata, tfatal,
          VALUES, MACROS, val, vcall, vdata, vfatal, pushed, events,
          LIFETIMES, TYPE_PARAMS, generics, gcalls, gclones, gitems, gfatal

tvars == <<ty, tcall, tdata, tfatal>>

vvars == <<VALUES, MACROS, val, vcall, vdata, vfatal, pushed, events>>

gvars == <<LIFETIMES, TYPE_PARAMS, generics, gcalls, gclones, gitems, gfatal>>

vars == <<part, tvars, vvars, gvars>>

NoCall == [op |-> "none", self |-> Infer, index |-> 0, types |-> <<>>]

NoData == [tag |-> "None"]

Call(op, self, index, types) ==
    [op |-> op, self |-> self, index |-> index, types |-> types]

RECURSIVE Depth(_)
RECURSIVE MaxDepthOf(_)
\* The largest depth among a list of types, 0 for the empty list.
MaxDepthOf(types) ==
    IF types = <<>> THEN 0
    ELSE LET h == Depth(Head(types))
             r == MaxDepthOf(Tail(types))
         IN  IF h > r THEN h ELSE r

\* The nesting depth of a type: the bound of the model is on it.
Depth(t) ==
    CASE t.tag \in {"Reference", "Dereference"} -> 1 + Depth(t.inner)
      [] t.tag = "Tuple" ->
            IF t.types = <<>> THEN 0 ELSE 1 + MaxDepthOf(t.types)
      [] OTHER -> 0

\* The data-structure types the caller declares: a tuple struct, a
\* named-field struct, a unit struct and an enum.
PairType ==
    DataStructureType("Pair", Generics_default,
        TupleStruct(<<Field(AccessorIndex(0), PrimitiveStr),
                      Field(AccessorIndex(1), ReferenceType(FALSE, <<>>, PrimitiveStr))>>,
                    <<>>))

PointType ==
    DataStructureType("Point", Generics_default,
        StructStruct(<<Field(AccessorName("x"), PrimitiveStr),
                       Field(AccessorName("y"), TypeParamType(1))>>,
                     <<"derive">>))

MarkerType == DataStructureType("Marker", Generics_default, UnitStruct(<<>>))

EitherType ==
    DataStructureType("Either", Generics_default,
        Enum(<<Variant("Unit", <<>>), Variant("Tuple", <<>>),
               Variant("Struct", <<"doc">>)>>, <<>>))

DataTypes == {PairType, PointType, MarkerType, EitherType}

\* The types a caller starts from.
BaseTypes ==
    {Infer, PrimitiveStr, Type_new_unit, TypeParamType(1)} \cup DataTypes

\* The types a caller puts beside the one it holds in a tuple.
TupleElems(t) == {t, PrimitiveStr}

\* The argument lists of new_tuple: up to MaxLen elements.
TupleArgs(t) ==
    UNION {[1..n -> TupleElems(t)] : n \in 0..MaxLen}

(***************************************************************************)
(* The Type algebra's calls.                                               *)
(***************************************************************************)
TypeInit ==
    /\ ty \in BaseTypes
    /\ tcall = NoCall
    /\ tdata = NoData
    /\ tfatal = FALSE

\* The caller's variables while another part of the library runs.
TypeIdle ==
    /\ ty = Infer
    /\ tcall = NoCall
    /\ tdata = NoData
    /\ tfatal = FALSE

TypeNewTuple(types) ==
    /\ part = "type"
    /\ ~tfatal
    /\ Depth(Type_new_tuple(types)) <= MaxDepth
    /\ ty' = Type_new_tuple(types)
    /\ tcall' = Call("new_tuple", ty, 0, types)
    /\ tdata' = NoData
    /\ UNCHANGED <<part, tfatal, vvars, gvars>>

TypeNewReference ==
    /\ part = "type"
    /\ ~tfatal
    /\ Depth(ty) < MaxDepth
    /\ ty' = Type_new_reference(ty)
    /\ tcall' = Call("new_reference", ty, 0, <<>>)
    /\ tdata' = NoData
    /\ UNCHANGED <<part, tfatal, vvars, gvars>>

TypeNewReferenceMut ==
    /\ part = "type"
    /\ ~tfatal
    /\ Depth(ty) < MaxDepth
    /\ ty' = Type_new_reference_mut(ty)
    /\ tcall' = Call("new_reference_mut", ty, 0, <<>>)
    /\ tdata' = NoData
    /\ UNCHANGED <<part, tfatal, vvars, gvars>>

TypeDereference ==
    /\ part = "type"
    /\ ~tfatal
    /\ Depth(Type_dereference(ty)) <= MaxDepth
    /\ ty' = Type_dereference(ty)
    /\ tcall' = Call("dereference", ty, 0, <<>>)
    /\ tdata' = NoData
    /\ UNCHANGED <<part, tfatal, vvars, gvars>>

TypeIndex(index) ==
    /\ part = "type"
    /\ ~tfatal
    /\ tcall' = Call("index", ty, index, <<>>)
    /\ LET r == Type_index(ty, index)
       IN  /\ tfatal' = IsPanic(r)
           /\ ty' = IF IsPanic(r) THEN ty ELSE r
    /\ tdata' = NoData
    /\ UNCHANGED <<part, vvars, gvars>>

TypeAsData ==
    /\ part = "type"
    /\ ~tfatal
    /\ tcall' = Call("as_data", ty, 0, <<>>)
    /\ LET r == Type_as_data(ty)
       IN  /\ tfatal' = IsPanic(r)
           /\ tdata' = IF IsPanic(r) THEN NoData ELSE r
    /\ UNCHANGED <<part, ty, vvars, gvars>>

TypeNext ==
    \/ \E types \in TupleArgs(ty) : TypeNewTuple(types)
    \/ TypeNewReference
    \/ TypeNewReferenceMut
    \/ TypeDereference
    \/ \E index \in 0..MaxLen : TypeIndex(index)
    \/ TypeAsData

(***************************************************************************)
(* The Value algebra's calls.  The arena starts with the nodes the         *)
(* constructors outside the core pushed: bindings of function arguments,   *)
(* string literals, a data-structure literal, a recorded call.             *)
(***************************************************************************)
NoValueCall == [op |-> "none", self |-> 0, index |-> 0, args |-> <<>>]

ValueCall(op, self, index, args) ==
    [op |-> op, self |-> self, index |-> index, args |-> args]

SeedArenas ==
    { <<BindingNode("a", PrimitiveStr),
        BindingNode("p", PairType),
        BindingNode("q", ReferenceType(TRUE, <<>>, PointType))>>,
      <<BindingNode("t", TupleType(<<PrimitiveStr, Infer>>)),
        InvokeNode(0),
        BindingNode("e", EitherType)>>,
      <<StrNode(<<Tok("hi")>>),
        BindingNode("a", PrimitiveStr),
        DataStructureNode("Pair",
            TupleStruct(<<Field(AccessorIndex(0), 0),
                          Field(AccessorIndex(1), 1)>>, <<>>))>>,
      <<StrNode(<<Tok("yo")>>),
        DataStructureNode("Single",
            TupleStruct(<<Field(AccessorIndex(0), 0)>>, <<"derive">>)),
        ReferenceNode(TRUE, 1)>>,
      <<StrNode(<<Tok("no")>>),
        DataStructureNode("Single",
            TupleStruct(<<Field(AccessorIndex(0), 0)>>, <<>>)),
        DataStructureNode("Pair",
            TupleStruct(<<Field(AccessorIndex(0), 0),
                          Field(AccessorIndex(1), 1)>>, <<>>))>> }

\* The log of the pushes that built an arena.
PushLog(arena) == [i \in DOMAIN arena |-> [ref |-> i - 1, node |-> arena[i]]]

ValueInit ==
    /\ VALUES \in SeedArenas
    /\ MACROS = <<>>
    /\ val \in 0..(Len(VALUES) - 1)
    /\ vcall = NoValueCall
    /\ vdata = NoData
    /\ vfatal = FALSE
    /\ pushed = PushLog(VALUES)
    /\ events = <<>>

ValueIdle ==
    /\ VALUES = <<>>
    /\ MACROS = <<>>
    /\ val = 0
    /\ vcall = NoValueCall
    /\ vdata = NoData
    /\ vfatal = FALSE
    /\ pushed = <<>>
    /\ events = <<>>

\* The values a caller puts beside the one it holds in an argument list.
ValueElems(v) == {v}

\* The argument lists given to new_tuple: the value held, up to MaxLen
\* times, and the first value of the arena followed by the value held.
ValueArgs(v) ==
    UNION {[1..n -> ValueElems(v)] : n \in 0..MaxLen} \cup {<<0, v>>}

\* The argument lists given to invoke_macro: none, the value held, and the
\* first value of the arena followed by the value held.
MacroArgs(v) == {<<>>, <<v>>, <<0, v>>}

\* The state after a call that returned r: a Value, a Data<Value>, or
\* nothing (the pass aborted, the arena as it was).
ValueReturn(call, r) ==
    /\ part = "value"
    /\ ~vfatal
    /\ vcall' = call
    /\ vfatal' = IsPanic(r)
    /\ VALUES' = IF IsPanic(r) THEN VALUES ELSE r.values
    /\ Len(VALUES') <= MaxValues
    /\ pushed' = IF IsPanic(r) THEN pushed ELSE pushed \o r.pushes
    /\ val' = IF r.tag = "Value" THEN r.index ELSE val
    /\ vdata' = IF r.tag = "Data" THEN r.data ELSE NoData
    /\ UNCHANGED <<part, tvars, gvars>>

ValueNewTuple(vs) ==
    /\ ValueReturn(ValueCall("new_tuple", val, 0, vs), Value_new_tuple(VALUES, vs))
    /\ events' = Value_new_tuple_events(VALUES, vs)
    /\ UNCHANGED MACROS

ValueNewReference ==
    /\ ValueReturn(ValueCall("new_reference", val, 0, <<>>),
                   Value_new_reference(VALUES, val))
    /\ events' = Value_new_reference_events(VALUES, val)
    /\ UNCHANGED MACROS

ValueNewReferenceMut ==
    /\ ValueReturn(ValueCall("new_reference_mut", val, 0, <<>>),
                   Value_new_reference_mut(VALUES, val))
    /\ events' = Value_new_reference_mut_events(VALUES, val)
    /\ UNCHANGED MACROS

ValueDereference ==
    /\ ValueReturn(ValueCall("dereference", val, 0, <<>>),
                   Value_dereference(VALUES, val))
    /\ events' = Value_dereference_events(VALUES, val)
    /\ UNCHANGED MACROS

ValueGetTypeName ==
    /\ ValueReturn(ValueCall("get_type_name", val, 0, <<>>),
                   Value_get_type_name(VALUES, val))
    /\ events' = Value_get_type_name_events(VALUES, val)
    /\ UNCHANGED MACROS

ValueAsData ==
    /\ ValueReturn(ValueCall("as_data", val, 0, <<>>), Value_as_data(VALUES, val))
    /\ events' = Value_as_data_events(VALUES, val)
    /\ UNCHANGED MACROS

ValueIndex(index) ==
    /\ ValueReturn(ValueCall("index", val, index, <<>>),
                   Value_index(VALUES, val, index))
    /\ events' = Value_index_events(VALUES, val, index)
    /\ UNCHANGED MACROS

ModuleInvokeMacro(vs) ==
    LET r == Module_invoke_macro(Module_get_module(Module_root, "std"),
                                 VALUES, MACROS, "println", vs)
    IN  /\ ValueReturn(ValueCall("invoke_macro", val, 0, vs), r)
        /\ events' = Module_invoke_macro_events(VALUES, vs)
        /\ MACROS' = r.macros

ValueNext ==
    \/ \E vs \in ValueArgs(val) : ValueNewTuple(vs)
    \/ ValueNewReference
    \/ ValueNewReferenceMut
    \/ ValueDereference
    \/ ValueGetTypeName
    \/ ValueAsData
    \/ \E index \in 0..MaxLen : ValueIndex(index)
    \/ \E vs \in MacroArgs(val) : ModuleInvokeMacro(vs)

(***************************************************************************)
(* The calls on a Generics.  A run starts from Generics::default, or from  *)
(* the Generics that set_generic_params(["T", "'a"]) makes of it.  A       *)
(* fatal call ends the pass: the state is kept as the call found it and no *)
(* further call is made.                                                   *)
(***************************************************************************)
GCall(op, args) == [op |-> op, args |-> args]

\* The counters before any symbol is minted: 'static holds the first
\* lifetime number.
FirstLifetime == STATIC_LIFETIME + 1

FirstTypeParam == 0

DeclaredSeed ==
    Generics_set_generic_params(Generics_default, <<"T", "'a">>,
                                FirstLifetime, FirstTypeParam)

GenericsInit ==
    /\ gclones = <<>>
    /\ gitems = 0
    /\ gfatal = FALSE
    /\ \/ /\ generics = Generics_default
          /\ gcalls = <<>>
          /\ LIFETIMES = FirstLifetime
          /\ TYPE_PARAMS = FirstTypeParam
       \/ \E seed \in {DeclaredSeed} :
            /\ generics = seed.val
            /\ gcalls = <<GCall("set_generic_params", <<"T", "'a">>)>>
            /\ LIFETIMES = seed.st.lt
            /\ TYPE_PARAMS = seed.st.tp

GenericsIdle ==
    /\ gclones = <<>>
    /\ gitems = 0
    /\ gfatal = FALSE
    /\ generics = Generics_default
    /\ gcalls = <<>>
    /\ LIFETIMES = FirstLifetime
    /\ TYPE_PARAMS = FirstTypeParam

\* The non-empty lists of at most n of the given strings.
Lists(strings, n) ==
    UNION {[1..k -> strings] : k \in 1..(IF n < MaxLen THEN n ELSE MaxLen)}

\* The state after a call on generics that returned r.
GenericsReturn(call, r) ==
    /\ gcalls' = Append(gcalls, call)
    /\ gfatal' = IsPanic(r)
    /\ generics' = IF IsPanic(r) THEN generics ELSE r.val
    /\ LIFETIMES' = IF IsPanic(r) THEN LIFETIMES ELSE r.st.lt
    /\ TYPE_PARAMS' = IF IsPanic(r) THEN TYPE_PARAMS ELSE r.st.tp
    /\ UNCHANGED <<part, tvars, vvars, gclones>>

SetGenericParams(params) ==
    /\ part = "generics"
    /\ ~gfatal
    /\ gitems' = gitems + Len(params)
    /\ GenericsReturn(GCall("set_generic_params", params),
            Generics_set_generic_params(generics, params, LIFETIMES, TYPE_PARAMS))

SetGenericConstraints(constraints) ==
    /\ part = "generics"
    /\ ~gfatal
    /\ gitems' = gitems + Len(constraints)
    /\ GenericsReturn(GCall("set_generic_constraints", constraints),
            Generics_set_generic_constraints(generics, constraints,
                                             LIFETIMES, TYPE_PARAMS))

CloneWithFreshGenerics ==
    /\ part = "generics"
    /\ ~gfatal
    /\ gitems < MaxItems
    /\ gitems' = gitems + 1
    /\ \E r \in {Generics_clone_with_fresh_generics(generics, LIFETIMES,
                                                    TYPE_PARAMS)} :
           /\ gfatal' = IsPanic(r)
           /\ gclones' = IF IsPanic(r) THEN gclones
                         ELSE Append(gclones,
                                [source |-> generics, generics |-> r.generics,
                                 param_map |-> r.param_map])
           /\ LIFETIMES' = IF IsPanic(r) THEN LIFETIMES ELSE r.lt
           /\ TYPE_PARAMS' = IF IsPanic(r) THEN TYPE_PARAMS ELSE r.tp
    /\ UNCHANGED <<part, tvars, vvars, generics, gcalls>>

\* A symbol minted for another definition: get_fresh_param on one of its
\* parameters.
FreshParamElsewhere(param) ==
    /\ part = "generics"
    /\ ~gfatal
    /\ gitems < MaxItems
    /\ gitems' = gitems + 1
    /\ LET r == GenericParam_get_fresh_param(param, LIFETIMES, TYPE_PARAMS)
       IN  /\ gfatal' = IsPanic(r)
           /\ LIFETIMES' = IF IsPanic(r) THEN LIFETIMES ELSE r.lt
           /\ TYPE_PARAMS' = IF IsPanic(r) THEN TYPE_PARAMS ELSE r.tp
    /\ UNCHANGED <<part, tvars, vvars, generics, gcalls, gclones>>

GenericsNext ==
    \/ \E params \in Lists(ParamStrings, MaxItems - gitems) : SetGenericParams(params)
    \/ \E constraints \in Lists(ClauseStrings, MaxItems - gitems) :
            SetGenericConstraints(constraints)
    \/ CloneWithFreshGenerics
    \/ \E param \in {StaticParam, TypeParam(0), ConstParam} :
            FreshParamElsewhere(param)

(***************************************************************************)
(* The specification: a run exercises one part of the library.             *)
(***************************************************************************)
Init ==
    \/ part = "type" /\ TypeInit /\ ValueIdle /\ GenericsIdle
    \/ part = "value" /\ TypeIdle /\ ValueInit /\ GenericsIdle
    \/ part = "generics" /\ TypeIdle /\ ValueIdle /\ GenericsInit

Next == TypeNext \/ ValueNext \/ GenericsNext

Spec == Init /\ [][Next]_vars

(***************************************************************************)
(* Properties.                                                             *)
(***************************************************************************)

\* C1: arena monotonicity.  Every reference a push into the value arena
\* returned is distinct from the references returned by all other pushes,
\* and at every later point it resolves to exactly the node that was pushed
\* for it: no node is removed or overwritten.
C1_ArenaMonotone ==
    /\ \A i, j \in DOMAIN pushed : i # j => pushed[i].ref # pushed[j].ref
    /\ \A i \in DOMAIN pushed :
            /\ pushed[i].ref < Len(VALUES)
            /\ ValueRef_node(VALUES, pushed[i].ref) = pushed[i].node

\* C1 happens: a dereference of a non-reference pushed a node, and a later
\* call pushed another.
C1_Witness ==
    \E i, j \in DOMAIN pushed :
        /\ i < j
        /\ pushed[i].node.tag = "Dereference"
        /\ pushed[j].node.tag \in {"Destructure", "Tuple", "MacroInvocation"}

(***************************************************************************)
(* The symbols that appear in a Generics: in its params, in its            *)
(* constraints and in its lookup table.                                    *)
(***************************************************************************)
Range(f) == {f[x] : x \in DOMAIN f}

LifetimeSymbols(lifetimes) == {LifetimeParam(l) : l \in Range(lifetimes)}

RECURSIVE TypeSymbols(_)
RECURSIVE PathSymbols(_)
RECURSIVE BoundSymbols(_)
TypeSymbols(t) ==
    CASE t.tag = "TypeParam" -> {TypeParam(t.param)}
      [] t.tag = "Reference" -> LifetimeSymbols(t.lifetime) \cup TypeSymbols(t.inner)
      [] t.tag = "Dereference" -> TypeSymbols(t.inner)
      [] t.tag = "Tuple" -> UNION {TypeSymbols(e) : e \in Range(t.types)}
      [] t.tag = "TraitObject" -> UNION {BoundSymbols(b) : b \in Range(t.bounds)}
      [] t.tag = "Path" -> PathSymbols(t.path)
      [] OTHER -> {}

PathSymbols(path) ==
    UNION {UNION {IF arg.kind = "Type" THEN TypeSymbols(arg.ty)
                  ELSE {LifetimeParam(arg.lifetime)} : arg \in Range(seg.args)} :
           seg \in Range(path.path)}

BoundSymbols(bound) ==
    IF bound.kind = "Lifetime" THEN {LifetimeParam(bound.lifetime)}
    ELSE LifetimeSymbols(bound.lifetimes) \cup PathSymbols(bound.path)

ConstraintSymbols(c) ==
    IF c.kind = "Type"
    THEN LifetimeSymbols(c.lifetimes) \cup TypeSymbols(c.bounded_ty)
            \cup UNION {BoundSymbols(b) : b \in Range(c.bounds)}
    ELSE {LifetimeParam(c.lifetime)} \cup LifetimeSymbols(c.bounds)

GenericsSymbols(g) ==
    Range(g.params) \cup Range(g.param_map)
        \cup UNION {ConstraintSymbols(c) : c \in Range(g.constraints)}

\* C2 as stated: after a fresh-generics clone, no symbol of the source
\* Generics (params, constraints, lookup table) appears in the result.
C2_NoSourceSymbol ==
    \A i \in DOMAIN gclones :
        GenericsSymbols(gclones[i].source)
            \cap GenericsSymbols(gclones[i].generics) = {}

\* C2, amended: after a fresh-generics clone, the only symbol of the source
\* Generics that appears in the result is the fixed lifetime 'static, which
\* the lookup table of every Generics holds.
C2_NoSourceSymbolButStatic ==
    \A i \in DOMAIN gclones :
        /\ GenericsSymbols(gclones[i].source)
                \cap GenericsSymbols(gclones[i].generics) = {StaticParam}
        /\ gclones[i].generics.param_map["'static"] = StaticParam

\* C2 happens: a Generics with declared parameters and a constraint was
\* cloned.
C2_Witness ==
    \E i \in DOMAIN gclones :
        /\ gclones[i].source.params # <<>>
        /\ gclones[i].source.constraints # <<>>
        /\ gclones[i].generics.constraints # <<>>

Injective(f) == \A x, y \in DOMAIN f : f[x] = f[y] => x = y

\* C3 as stated: the substitution map of a fresh-generics clone is a
\* bijection from the source's params to the result's params: its key set
\* is exactly the source's params, its value set exactly the result's
\* params, and no two keys share a value.
C3_Bijection ==
    \A i \in DOMAIN gclones :
        /\ DOMAIN gclones[i].param_map = Range(gclones[i].source.params)
        /\ Range(gclones[i].param_map) = Range(gclones[i].generics.params)
        /\ Injective(gclones[i].param_map)

\* C3, amended: the substitution map is injective; its key set is the
\* source's params and the lifetime 'static, which maps to itself; the
\* result has one fresh parameter per position of the source's params, of
\* the same kind; and a source parameter maps to the fresh parameter at the
\* last position where it occurs.  So the map is a bijection from the
\* source's params and 'static onto the result's params and 'static when
\* no parameter is listed twice in the source.
C3_SubstitutionMap ==
    \A i \in DOMAIN gclones :
        LET G == gclones[i].source.params
            F == gclones[i].generics.params
            m == gclones[i].param_map
            Last(k) == \A j \in DOMAIN G : j > k => G[j] # G[k]
        IN  /\ DOMAIN m = Range(G) \cup {StaticParam}
            /\ m[StaticParam] = StaticParam
            /\ Injective(m)
            /\ Len(F) = Len(G)
            /\ \A k \in DOMAIN G : F[k].kind = G[k].kind
            /\ \A k \in DOMAIN G : Last(k) => m[G[k]] = F[k]
            /\ (\A k \in DOMAIN G : Last(k))
                    => Range(m) = Range(F) \cup {StaticParam}

\* C3 happens: a Generics with a type parameter and a lifetime parameter
\* was cloned, and so was one that lists a parameter twice.
C3_Witness ==
    /\ \E i \in DOMAIN gclones :
            \E j, k \in DOMAIN gclones[i].source.params :
                gclones[i].source.params[j].kind
                    # gclones[i].source.params[k].kind
    /\ \E i \in DOMAIN gclones :
            \E j, k \in DOMAIN gclones[i].source.params :
                j # k /\ gclones[i].source.params[j] = gclones[i].source.params[k]

\* C4: two fresh-generics clones of the same Generics share no minted
\* symbol with each other or with the original: the params minted by the
\* first, the params minted by the second and the params the original
\* declares are pairwise disjoint, whatever was minted in between.
C4_ClonesDisjoint ==
    \A i, j \in DOMAIN gclones :
        (i < j /\ gclones[i].source = gclones[j].source) =>
            /\ Range(gclones[i].generics.params)
                    \cap Range(gclones[j].generics.params) = {}
            /\ Range(gclones[i].generics.params)
                    \cap Range(gclones[i].source.params) = {}
            /\ Range(gclones[j].generics.params)
                    \cap Range(gclones[i].source.params) = {}

\* C4 happens: a Generics with parameters was cloned twice, and a symbol
\* was minted for another definition between the two clones (the type
\* parameters the second clone minted do not follow on those of the first).
C4_Witness ==
    \E i, j \in DOMAIN gclones :
        /\ i < j
        /\ gclones[i].source = gclones[j].source
        /\ \E k \in DOMAIN gclones[i].source.params :
                /\ gclones[i].source.params[k].kind = "Type"
                /\ gclones[j].generics.params[k].n
                        > gclones[i].generics.params[k].n
                            + Cardinality({p \in DOMAIN gclones[i].source.params :
                                    gclones[i].source.params[p].kind = "Type"})

RefOps == {"new_reference", "new_reference_mut"}

\* C5: reference round trip.  For every type T, a reference included,
\* dereference(new_reference(T)) = T and dereference(new_reference_mut(T)) = T.
C5_ReferenceRoundTrip ==
    tcall.op \in RefOps => Type_dereference(ty) = tcall.self

\* C5 happens: new_reference_mut was called on a type that is itself a
\* reference.
C5_Witness ==
    /\ tcall.op = "new_reference_mut"
    /\ tcall.self.tag = "Reference"
    /\ Type_dereference(ty).tag = "Reference"

\* C6 as stated: new_reference or new_reference_mut of a type or value that
\* is already a reference does not produce a Reference node whose inner
\* node is itself a Reference node.
C6_ReferenceCollapses ==
    /\ (tcall.op \in RefOps /\ tcall.self.tag = "Reference")
            => ~(ty.tag = "Reference" /\ ty.inner.tag = "Reference")
    /\ (vcall.op \in RefOps /\ ValueRef_node(VALUES, vcall.self).tag = "Reference")
            => ~(/\ ValueRef_node(VALUES, val).tag = "Reference"
                 /\ ValueRef_node(VALUES, ValueRef_node(VALUES, val).value).tag
                        = "Reference")

\* C6, amended: a reference of a reference nests.  new_reference and
\* new_reference_mut of any type R, a reference included, produce the
\* Reference node of that mutability, without lifetime, whose inner node is
\* R; on any value R, a reference included, they append a Reference node
\* whose value is R and return the new node's reference.
C6_ReferenceNests ==
    /\ tcall.op \in RefOps
            => ty = ReferenceType(tcall.op = "new_reference_mut", <<>>, tcall.self)
    /\ vcall.op \in RefOps
            => /\ val = Len(VALUES) - 1
               /\ ValueRef_node(VALUES, val)
                    = ReferenceNode(vcall.op = "new_reference_mut", vcall.self)

\* C6 happens: new_reference was called on a value that is a reference.
C6_Witness ==
    /\ vcall.op = "new_reference"
    /\ ValueRef_node(VALUES, vcall.self).tag = "Reference"
    /\ ValueRef_node(VALUES, val).tag = "Reference"

\* C7: the dereference rule, for both algebras.  Dereferencing a Reference
\* node yields its inner node (for values: the referent's reference, and
\* the arena is left as it was); dereferencing any other node yields a new
\* Dereference node wrapping the receiver (for values: appended to the
\* arena).
C7_DereferenceRule ==
    [][/\ tcall'.op = "dereference"
            => ty' = IF ty.tag = "Reference" THEN ty.inner ELSE DereferenceType(ty)
       /\ vcall'.op = "dereference"
            => IF ValueRef_node(VALUES, val).tag = "Reference"
               THEN /\ VALUES' = VALUES
                    /\ val' = ValueRef_node(VALUES, val).value
               ELSE /\ VALUES' = Append(VALUES, DereferenceNode(val))
                    /\ val' = Len(VALUES)]_vars

\* C7 happens: a value that is no reference was dereferenced, which
\* appended a Dereference node, and later a reference was dereferenced,
\* which returned its referent.
C7_Witness ==
    /\ vcall.op = "dereference"
    /\ ValueRef_node(VALUES, vcall.self).tag = "Reference"
    /\ val = ValueRef_node(VALUES, vcall.self).value
    /\ \E i \in DOMAIN pushed : pushed[i].node.tag = "Dereference"

\* C8: Type::index is a checked tuple projection.  On a tuple of types Ts
\* and i < Len(Ts) it returns Ts[i], on a tuple-struct data structure the
\* type of field i; for i out of bounds, and for a receiver that is neither
\* a tuple nor a tuple struct, it is fatal and returns no type.
C8_CheckedProjection ==
    /\ \A Ts \in TupleArgs(ty) : \A i \in 0..MaxLen :
            Type_index(Type_new_tuple(Ts), i)
                = IF i < Len(Ts) THEN Ts[i + 1] ELSE Panic
    /\ tcall.op = "index" =>
            CASE tcall.self.tag = "Tuple" ->
                    IF tcall.index < Len(tcall.self.types)
                    THEN ~tfatal /\ ty = tcall.self.types[tcall.index + 1]
                    ELSE tfatal
              [] tcall.self.tag = "DataStructure"
                    /\ tcall.self.data.tag = "Struct"
                    /\ tcall.self.data.shape = "Tuple" ->
                    IF tcall.index < Len(tcall.self.data.fields)
                    THEN /\ ~tfatal
                         /\ ty = tcall.self.data.fields[tcall.index + 1].element
                    ELSE tfatal
              [] OTHER -> tfatal

\* C8 happens: index 1 was taken of a tuple of two types, which returned
\* its second type.
C8_Witness ==
    /\ tcall.op = "index"
    /\ tcall.self.tag = "Tuple"
    /\ Len(tcall.self.types) = 2
    /\ tcall.index = 1
    /\ ~tfatal
    /\ ty = tcall.self.types[2]

\* The same case of Data, the same kind of struct, the same fields in the
\* same order under the same accessors, the same variants.
SameShape(d, e) ==
    /\ d.tag = e.tag
    /\ d.attrs = e.attrs
    /\ d.tag = "Struct" =>
            /\ d.shape = e.shape
            /\ Len(d.fields) = Len(e.fields)
            /\ \A i \in DOMAIN d.fields : d.fields[i].accessor = e.fields[i].accessor
    /\ d.tag = "Enum" => d.variants = e.variants

RECURSIVE DeclaredData(_)
\* The shape a data-structure type declares, under any references.
DeclaredData(t) == IF t.tag = "Reference" THEN DeclaredData(t.inner) ELSE t.data

RECURSIVE ValueData(_, _)
\* The shape of a data-structure value, under any references: of the
\* literal, or of the type a binding declares.
ValueData(values, ref) ==
    LET node == ValueRef_node(values, ref)
    IN  CASE node.tag = "Reference" -> ValueData(values, node.value)
          [] node.tag = "Binding" -> DeclaredData(node.ty)
          [] OTHER -> node.data

\* C9: mapping a Data preserves its shape.  The Data that Type::as_data
\* and Value::as_data return has the Struct or Enum case, the unit, tuple
\* or named-field case, the number and order of fields and the accessor of
\* every field that the data structure declares.
C9_MapPreservesShape ==
    /\ (tcall.op = "as_data" /\ ~tfatal) => SameShape(DeclaredData(tcall.self), tdata)
    /\ (vcall.op = "as_data" /\ ~vfatal)
            => SameShape(ValueData(VALUES, vcall.self), vdata)

\* C9 happens: as_data was called on a reference to a struct of two named
\* fields, and returned a struct of two named fields.
C9_Witness ==
    /\ tcall.op = "as_data"
    /\ ~tfatal
    /\ tcall.self.tag = "Reference"
    /\ tdata.tag = "Struct"
    /\ tdata.shape = "Struct"
    /\ Len(tdata.fields) = 2

RECURSIVE ExpectedConstraints(_)
\* The number of constraints a list of calls on a Generics adds: one per
\* declaration that has bounds, one per where clause.
ExpectedConstraints(calls) ==
    IF calls = <<>> THEN 0
    ELSE ExpectedConstraints(Tail(calls))
            + IF Head(calls).op = "set_generic_params"
              THEN Cardinality({j \in DOMAIN Head(calls).args :
                        ParseGenericParam(Head(calls).args[j]).bounds # <<>>})
              ELSE Len(Head(calls).args)

\* C10: on a default Generics, set_generic_params(["T", "'a"]) followed by
\* set_generic_constraints(["T: Clone"]) leaves "T" mapped to a
\* type-parameter symbol, "'a" mapped to a lifetime symbol, and exactly one
\* constraint: a type constraint on that type-parameter symbol with the one
\* trait bound Clone.  In general every declared name maps to a symbol of
\* its own kind, and a declaration without bounds adds no constraint.
C10_Declarations ==
    /\ (/\ gcalls = <<GCall("set_generic_params", <<"T", "'a">>),
                      GCall("set_generic_constraints", <<"T: Clone">>)>>
         /\ ~gfatal)
            => /\ {"T", "'a"} \subseteq DOMAIN generics.param_map
               /\ generics.param_map["T"].kind = "Type"
               /\ generics.param_map["'a"].kind = "Lifetime"
               /\ generics.constraints
                    = <<PredicateType(<<>>,
                            TypeParamType(generics.param_map["T"].n),
                            <<TraitBound(<<>>,
                                [path |-> <<[ident |-> "Clone", args |-> <<>>]>>,
                                 global |-> FALSE])>>)>>
    /\ ~gfatal
            => /\ \A i \in DOMAIN gcalls :
                    gcalls[i].op = "set_generic_params" =>
                        \A j \in DOMAIN gcalls[i].args :
                            \E d \in {ParseGenericParam(gcalls[i].args[j])} :
                                /\ d.ident \in DOMAIN generics.param_map
                                /\ generics.param_map[d.ident].kind = d.kind
               /\ Len(generics.constraints) = ExpectedConstraints(gcalls)

\* C10 happens: the two calls of the scenario were made on a default
\* Generics.
C10_Witness ==
    /\ gcalls = <<GCall("set_generic_params", <<"T", "'a">>),
                  GCall("set_generic_constraints", <<"T: Clone">>)>>
    /\ ~gfatal
    /\ Len(generics.constraints) = 1
    /\ Len(generics.params) = 2

\* The value the last call was made on is a tuple-struct literal, or a
\* binding of a tuple-struct type.
IsTupleStructLiteral(node) ==
    node.tag = "DataStructure" /\ node.data.tag = "Struct"
        /\ node.data.shape = "Tuple"

IsTupleStructBinding(node) ==
    node.tag = "Binding" /\ node.ty.tag = "DataStructure"
        /\ is_tuple_struct(node.ty)

\* The last call pushed exactly this node and returned its reference.
ReturnedNew(node) ==
    /\ ~vfatal
    /\ val = Len(VALUES) - 1
    /\ ValueRef_node(VALUES, val) = node
    /\ pushed[Len(pushed)] = [ref |-> val, node |-> node]

\* C11 as stated: index(i) of a tuple-struct value with n fields, i < n,
\* yields a newly pushed Destructure value whose parent is the receiver and
\* whose accessor is the accessor of field i.
C11_IndexYieldsDestructure ==
    (/\ vcall.op = "index"
     /\ \/ IsTupleStructLiteral(ValueRef_node(VALUES, vcall.self))
        \/ IsTupleStructBinding(ValueRef_node(VALUES, vcall.self)))
        => \E node \in {ValueRef_node(VALUES, vcall.self)} :
           \E fields \in {IF node.tag = "Binding" THEN node.ty.data.fields
                           ELSE node.data.fields} :
                vcall.index < Len(fields) =>
                    /\ ~vfatal
                    /\ val = Len(VALUES) - 1
                    /\ ValueRef_node(VALUES, val).tag = "Destructure"
                    /\ ValueRef_node(VALUES, val).parent = vcall.self
                    /\ ValueRef_node(VALUES, val).accessor
                            = fields[vcall.index + 1].accessor

\* C11, amended: index(i) of a binding of a tuple-struct type with n
\* fields, i < n, pushes the Destructure node of the receiver, the accessor
\* of field i and the declared type of field i, and returns it.  index(i)
\* of a tuple-struct literal does the same with the type of the value held
\* in field i when that value has a type; when it has none (it is itself a
\* data-structure literal, a Dereference or a macro invocation), the call
\* aborts and pushes nothing.
C11_IndexOfTupleStruct ==
    vcall.op = "index" =>
        \E node \in {ValueRef_node(VALUES, vcall.self)} :
            /\ (IsTupleStructBinding(node)
                    /\ vcall.index < Len(node.ty.data.fields))
                => ReturnedNew(DestructureNode(vcall.self,
                        node.ty.data.fields[vcall.index + 1].accessor,
                        node.ty.data.fields[vcall.index + 1].element))
            /\ (IsTupleStructLiteral(node) /\ vcall.index < Len(node.data.fields))
                => \E t \in {ValueRef_get_type(VALUES,
                                node.data.fields[vcall.index + 1].element)} :
                        IF IsPanic(t) THEN vfatal
                        ELSE ReturnedNew(DestructureNode(vcall.self,
                                node.data.fields[vcall.index + 1].accessor, t))

\* C11 happens: index(1) of a literal of a two-field tuple struct returned
\* a Destructure value of the type of the second field's value.
C11_Witness ==
    /\ vcall.op = "index"
    /\ vcall.index = 1
    /\ IsTupleStructLiteral(ValueRef_node(VALUES, vcall.self))
    /\ Len(ValueRef_node(VALUES, vcall.self).data.fields) = 2
    /\ ~vfatal
    /\ ValueRef_node(VALUES, val).tag = "Destructure"
    /\ ValueRef_node(VALUES, val).ty = PrimitiveStr

\* Every field of data is the reference of the given mutability and
\* lifetime to the field of inner at the same position.
FieldsReference(data, inner, is_mut, lifetime) ==
    /\ SameShape(inner, data)
    /\ \A i \in DOMAIN FieldSeq(inner) :
            data.fields[i].element
                = ReferenceType(is_mut, lifetime, inner.fields[i].element)

\* C12: as_data on a reference to a data structure propagates the
\* reference onto every field.  For a Type Reference{is_mut, lifetime,
\* inner}, every field of the result is the Reference of the same is_mut
\* and lifetime to the field of inner's as_data at that position; for a
\* Value reference, every field is a newly pushed Reference value of the
\* same mutability to the field of the referent's as_data at that position.
C12_AsDataPropagatesReference ==
    [][/\ (tcall'.op = "as_data" /\ ~tfatal' /\ ty.tag = "Reference")
            => FieldsReference(tdata', Type_as_data(ty.inner),
                               ty.is_mut, ty.lifetime)
       /\ \A is_mut \in BOOLEAN : \A lifetime \in {<<>>, <<STATIC_LIFETIME>>} :
            (tcall'.op = "as_data" /\ ~tfatal')
                => FieldsReference(
                        Type_as_data(ReferenceType(is_mut, lifetime, ty)),
                        tdata', is_mut, lifetime)
       /\ (/\ vcall'.op = "as_data"
            /\ ~vfatal'
            /\ ValueRef_node(VALUES, val).tag = "Reference")
            => \E node \in {ValueRef_node(VALUES, val)} :
               \E inner \in {Value_as_data(VALUES, node.value)} :
                    /\ SameShape(inner.data, vdata')
                    /\ Len(VALUES') = Len(inner.values) + Len(FieldSeq(vdata'))
                    /\ \A i \in DOMAIN FieldSeq(vdata') :
                            /\ vdata'.fields[i].element = Len(inner.values) + i - 1
                            /\ ValueRef_node(VALUES', vdata'.fields[i].element)
                                    = ReferenceNode(node.is_mut,
                                                    inner.data.fields[i].element)
      ]_vars

\* C12 happens: as_data of a mutable reference value to a tuple-struct
\* literal returned a field that is a new mutable reference value.
C12_Witness ==
    /\ vcall.op = "as_data"
    /\ ~vfatal
    /\ ValueRef_node(VALUES, vcall.self).tag = "Reference"
    /\ ValueRef_node(VALUES, vcall.self).is_mut
    /\ vdata.tag = "Struct"
    /\ vdata.fields # <<>>
    /\ ValueRef_node(VALUES, vdata.fields[1].element)
            = ReferenceNode(TRUE,
                ValueRef_node(VALUES,
                    ValueRef_node(VALUES, vcall.self).value).data.fields[1].element)

RECURSIVE TypeIsData(_)
\* A DataStructure type node, or a Reference whose referent is one,
\* through any number of references.
TypeIsData(t) ==
    \/ t.tag = "DataStructure"
    \/ t.tag = "Reference" /\ TypeIsData(t.inner)

RECURSIVE ValueIsDataLiteral(_, _)
\* A DataStructure value node, or a Reference whose referent is one,
\* through any number of references.
ValueIsDataLiteral(values, r) ==
    \E node \in {ValueRef_node(values, r)} :
        \/ node.tag = "DataStructure"
        \/ node.tag = "Reference" /\ ValueIsDataLiteral(values, node.value)

RECURSIVE ValueHasData(_, _)
\* A DataStructure value node, a Binding whose declared type is a data
\* structure or a reference to one, or a Reference to such a value.
ValueHasData(values, r) ==
    \E node \in {ValueRef_node(values, r)} :
        \/ node.tag = "DataStructure"
        \/ node.tag = "Binding" /\ TypeIsData(node.ty)
        \/ node.tag = "Reference" /\ ValueHasData(values, node.value)

\* C13 as stated: Type::as_data and Value::as_data return a Data only for
\* a DataStructure node or a Reference whose referent (transitively) is a
\* DataStructure node, and abort for every other node kind.
C13_DataOnlyForDataStructure ==
    /\ tcall.op = "as_data" => (tfatal <=> ~TypeIsData(tcall.self))
    /\ vcall.op = "as_data"
            => (vfatal <=> ~ValueIsDataLiteral(VALUES, vcall.self))

\* C13 amended: Type::as_data aborts exactly when the receiver is neither
\* a DataStructure node nor a reference chain to one; Value::as_data aborts
\* exactly when the receiver is neither a DataStructure node, nor a Binding
\* whose declared type Type::as_data accepts, nor a reference chain to one
\* of these.  A binding of data-structure type yields a Data of newly
\* pushed Destructure values.
C13_AsDataFatalOtherwise ==
    /\ tcall.op = "as_data" => (tfatal <=> ~TypeIsData(tcall.self))
    /\ vcall.op = "as_data" => (vfatal <=> ~ValueHasData(VALUES, vcall.self))
    /\ (/\ vcall.op = "as_data"
         /\ ~vfatal
         /\ ValueRef_node(VALUES, vcall.self).tag = "Binding")
            => \A i \in DOMAIN FieldSeq(vdata) :
                    ValueRef_node(VALUES, FieldSeq(vdata)[i].element).tag
                        = "Destructure"

\* C13 happens: as_data aborted on a receiver that is not a data structure.
C13_Witness ==
    \/ /\ tcall.op = "as_data"
       /\ tfatal
       /\ tcall.self.tag \in {"Tuple", "PrimitiveStr", "Infer"}
    \/ /\ vcall.op = "as_data"
       /\ vfatal
       /\ ValueRef_node(VALUES, vcall.self).tag \in {"Str", "Tuple", "Invoke"}

\* The shape of the node is not statically known: it is not a tuple value,
\* not a tuple-struct literal and not a binding of tuple or tuple-struct
\* type.
ShapeUnknown(node) ==
    /\ node.tag # "Tuple"
    /\ ~IsTupleStructLiteral(node)
    /\ ~IsTupleStructBinding(node)
    /\ ~(node.tag = "Binding" /\ node.ty.tag = "Tuple")

\* C14: when the shape of the receiver is not statically known,
\* Value::index(n) does not fail for any n; it pushes exactly one
\* Destructure node with parent = receiver, positional accessor n and the
\* inferred placeholder type, and returns a value wrapping it.
C14_IndexSoftFallback ==
    [][(vcall'.op = "index" /\ ShapeUnknown(ValueRef_node(VALUES, val)))
            => \E node \in {DestructureNode(val, AccessorIndex(vcall'.index), Infer)} :
                /\ ~vfatal'
                /\ vcall'.self = val
                /\ VALUES' = Append(VALUES, node)
                /\ val' = Len(VALUES)
                /\ pushed' = Append(pushed, [ref |-> Len(VALUES), node |-> node])
      ]_vars

\* C14 happens: index past anything a string or a reference could hold
\* returned a new Destructure value of inferred type.
C14_Witness ==
    /\ vcall.op = "index"
    /\ vcall.index = MaxLen
    /\ ValueRef_node(VALUES, vcall.self).tag \in {"Str", "Reference"}
    /\ ~vfatal
    /\ ValueRef_node(VALUES, val)
            = DestructureNode(vcall.self, AccessorIndex(MaxLen), Infer)

\* The step is a call of set_generic_constraints.
ConstraintsCall ==
    /\ Len(gcalls') = Len(gcalls) + 1
    /\ gcalls'[Len(gcalls')].op = "set_generic_constraints"

\* The lifetime names a bound refers to, less those its own for<..> list
\* introduces.
BoundLifetimeNames(bound) ==
    IF bound.kind = "Trait"
    THEN {bound.path.args[k].ident : k \in {j \in DOMAIN bound.path.args :
                bound.path.args[j].kind = "Lifetime"}} \ Range(bound.lifetimes)
    ELSE {bound.ident}

\* The lifetime names a where predicate refers to: the bounded and the
\* bounding lifetimes, less those a for<..> list of the predicate introduces.
PredicateLifetimeNames(predicate) ==
    IF predicate.kind = "Lifetime"
    THEN {predicate.lifetime} \cup Range(predicate.bounds)
    ELSE UNION {BoundLifetimeNames(predicate.bounds[k]) :
                    k \in DOMAIN predicate.bounds} \ Range(predicate.lifetimes)

\* The name of the bounded type of a where predicate, when it is a plain
\* name.
PredicateTypeNames(predicate) ==
    IF predicate.kind = "Type" /\ predicate.bounded_ty.kind = "Path"
          /\ predicate.bounded_ty.path.args = <<>>
    THEN {predicate.bounded_ty.path.ident}
    ELSE {}

NoConst(g) ==
    /\ \A i \in DOMAIN g.params : g.params[i].kind # "Const"
    /\ \A name \in DOMAIN g.param_map : g.param_map[name].kind # "Const"

\* C16: a const generic parameter is never accepted.  A call of
\* set_generic_params that declares one aborts, get_fresh_param on one
\* aborts, and the clone of a const generic argument aborts; no Generics
\* the library has built holds a Const parameter in params or in its lookup
\* table.
C16_ConstNeverAccepted ==
    /\ \A i \in DOMAIN gcalls :
            (/\ gcalls[i].op = "set_generic_params"
             /\ \E j \in DOMAIN gcalls[i].args :
                    ParseGenericParam(gcalls[i].args[j]).kind = "Const")
                => gfatal /\ i = Len(gcalls)
    /\ IsPanic(GenericParam_get_fresh_param(ConstParam, LIFETIMES, TYPE_PARAMS))
    /\ \A i \in DOMAIN gclones :
            /\ IsPanic(GenericArgument_clone_with_fresh_generics(
                            [kind |-> "Const"], gclones[i].param_map))
            /\ NoConst(gclones[i].generics)
    /\ NoConst(generics)

\* C16 happens: a const declaration after a type declaration aborted
\* set_generic_params.
C16_Witness ==
    /\ gfatal
    /\ gcalls # <<>>
    /\ gcalls[Len(gcalls)] = GCall("set_generic_params", <<"U", "const N: usize">>)

RECURSIVE Untyped(_, _)
\* The node carries no type information: it is a Dereference, a
\* DataStructure or a MacroInvocation node, or a tuple or a reference
\* through which one is reached.
Untyped(values, r) ==
    \E node \in {ValueRef_node(values, r)} :
        \/ node.tag \in {"Dereference", "DataStructure", "MacroInvocation"}
        \/ node.tag = "Tuple"
                /\ \E i \in DOMAIN node.values : Untyped(values, node.values[i])
        \/ node.tag = "Reference" /\ Untyped(values, node.value)

\* C17: ValueNode::get_type aborts exactly for a Dereference, DataStructure
\* or MacroInvocation node, also when one is reached through a tuple element
\* or a reference; for every other node it returns a type: str for Str, the
\* declared type for Binding and Destructure, the output type for Invoke, a
\* tuple type for Tuple and an unnamed-lifetime reference type for Reference.
C17_GetTypeFailsFast ==
    \A r \in 0..(Len(VALUES) - 1) :
    \E node \in {ValueRef_node(VALUES, r)} :
    \E t \in {ValueRef_get_type(VALUES, r)} :
        /\ IsPanic(t) <=> Untyped(VALUES, r)
        /\ ~IsPanic(t) =>
            CASE node.tag = "Str" -> t = PrimitiveStr
              [] node.tag \in {"Binding", "Destructure"} -> t = node.ty
              [] node.tag = "Invoke" -> t = INVOKES[node.invoke + 1].output
              [] node.tag = "Tuple" ->
                    /\ t.tag = "Tuple"
                    /\ Len(t.types) = Len(node.values)
                    /\ \A i \in DOMAIN node.values :
                            t.types[i] = ValueRef_get_type(VALUES, node.values[i])
              [] node.tag = "Reference" ->
                    t = ReferenceType(node.is_mut, <<>>,
                                      ValueRef_get_type(VALUES, node.value))

\* C17 happens: Value::index on a tuple-struct literal aborted asking the
\* type of a field value that carries none.
C17_Witness ==
    /\ vcall.op = "index"
    /\ vfatal
    /\ \E node \in {ValueRef_node(VALUES, vcall.self)} :
        /\ IsTupleStructLiteral(node)
        /\ vcall.index < Len(node.data.fields)
        /\ Untyped(VALUES, node.data.fields[vcall.index + 1].element)
        /\ IsPanic(ValueRef_get_type(VALUES,
                        node.data.fields[vcall.index + 1].element))

\* C18: Module::invoke_macro(name, values) appends exactly one invocation
\* to the macro arena, holding the module path extended by name and the
\* references of values in the given order, then appends exactly one
\* MacroInvocation node referring to it to the value arena and returns a
\* value wrapping that node; the nodes both arenas held are unchanged.
C18_InvokeMacroFrame ==
    [][vcall'.op = "invoke_macro"
            => /\ ~vfatal'
               /\ MACROS' = Append(MACROS,
                    MacroInvoke([path |-> <<[ident |-> "std", args |-> <<>>],
                                           [ident |-> "println", args |-> <<>>]>>,
                                 global |-> TRUE],
                                vcall'.args))
               /\ VALUES' = Append(VALUES, MacroInvocationNode(Len(MACROS)))
               /\ val' = Len(VALUES)
      ]_vars

\* C18 happens: a second macro invocation with two different arguments was
\* recorded and a value wrapping it returned.
C18_Witness ==
    /\ vcall.op = "invoke_macro"
    /\ Len(vcall.args) = 2
    /\ vcall.args[1] # vcall.args[2]
    /\ Len(MACROS) = 2
    /\ MACROS[2].args = vcall.args
    /\ ValueRef_node(VALUES, val) = MacroInvocationNode(1)

\* C19: after any sequence of set_generic_params and
\* set_generic_constraints calls on a Generics, every symbol in its params
\* list and every symbol referenced in its constraints is a value of its
\* param_map, or is the fixed static lifetime.
C19_TableHoldsEverySymbol ==
    (Range(generics.params)
        \cup UNION {ConstraintSymbols(c) : c \in Range(generics.constraints)})
            \subseteq (Range(generics.param_map) \cup {StaticParam})

\* C20: the fresh-generics clone is total and structure preserving.  For
\* every Generics built through set_generic_params and
\* set_generic_constraints, bound-lifetime lists included,
\* clone_with_fresh_generics completes without failing and yields as many
\* params of the same kinds in the same order, as many constraints of the
\* same kinds in the same order, and a lookup table with the same names.
C20_CloneTotal ==
    ~gfatal =>
        \E r \in {Generics_clone_with_fresh_generics(generics, LIFETIMES,
                                                     TYPE_PARAMS)} :
            /\ ~IsPanic(r)
            /\ Len(r.generics.params) = Len(generics.params)
            /\ \A i \in DOMAIN generics.params :
                    r.generics.params[i].kind = generics.params[i].kind
            /\ Len(r.generics.constraints) = Len(generics.constraints)
            /\ \A i \in DOMAIN generics.constraints :
                    r.generics.constraints[i].kind = generics.constraints[i].kind
            /\ DOMAIN r.generics.param_map = DOMAIN generics.param_map

\* The names a list of declaration strings declares.
DeclaredNames(args) == {ParseGenericParam(args[j]).ident : j \in DOMAIN args}

\* The type a name in a bound stands for: the symbol of the parameter of
\* that name when the list declares it, the path of that name otherwise.
BoundArgument(pm, args, arg) ==
    [kind |-> "Type",
     ty |-> IF arg.ty.path.ident \in DeclaredNames(args)
            THEN TypeParamType(pm[arg.ty.path.ident].n)
            ELSE PathType([path |-> <<[ident |-> arg.ty.path.ident,
                                       args |-> <<>>]>>,
                           global |-> FALSE])]

\* The constraint hoisted from a type-parameter declaration with trait
\* bounds: one constraint on the declared symbol, a bound per declared
\* bound, the names in its arguments resolved against the whole list.
HoistedConstraint(pm, args, decl) ==
    PredicateType(<<>>, TypeParamType(pm[decl.ident].n),
        [k \in DOMAIN decl.bounds |->
            TraitBound(<<>>,
                [path |-> <<[ident |-> decl.bounds[k].path.ident,
                             args |-> [a \in DOMAIN decl.bounds[k].path.args |->
                                        BoundArgument(pm, args,
                                            decl.bounds[k].path.args[a])]]>>,
                 global |-> FALSE])])

\* The declarations with bounds among the first j of the list.
Bounded(args, j) ==
    {i \in 1..j : ParseGenericParam(args[i]).bounds # <<>>}

\* C21: when a parameter list is declared, every parameter is registered
\* before any bound is translated.  After a set_generic_params call that
\* returned, a bound that names another parameter of the same list holds
\* that parameter's symbol, whether it is declared earlier or later; the
\* params added keep declaration order, and each declaration with bounds
\* added one constraint on the declaring parameter's symbol.
C21_PreRegistration ==
    (/\ gcalls # <<>>
     /\ gcalls[Len(gcalls)].op = "set_generic_params"
     /\ ~gfatal)
        => \E args \in {gcalls[Len(gcalls)].args} :
           \E first \in {Len(generics.params) - Len(args)} :
           \E base \in {Len(generics.constraints)
                            - Cardinality(Bounded(args, Len(args)))} :
                /\ first >= 0
                /\ base >= 0
                /\ \A j \in DOMAIN args :
                   \E decl \in {ParseGenericParam(args[j])} :
                        /\ generics.params[first + j]
                                = generics.param_map[decl.ident]
                        /\ generics.params[first + j].kind = decl.kind
                        /\ decl.bounds # <<>> =>
                                generics.constraints[
                                        base + Cardinality(Bounded(args, j))]
                                    = HoistedConstraint(generics.param_map,
                                                        args, decl)

\* C21 happens: T: Into<U> was declared before U in one list, and the
\* constraint on T names the symbol of U.
C21_Witness ==
    /\ ~gfatal
    /\ gcalls # <<>>
    /\ gcalls[Len(gcalls)] = GCall("set_generic_params", <<"T: Into<U>", "U">>)
    /\ generics.constraints # <<>>
    /\ generics.constraints[Len(generics.constraints)].bounds[1].path.path[1].args[1].ty
            = TypeParamType(generics.param_map["U"].n)
    /\ generics.param_map["U"] = generics.params[Len(generics.params)]

\* Every value of the list has a type.
AllTyped(values, refs) ==
    \A i \in DOMAIN refs : ~IsPanic(ValueRef_get_type(values, refs[i]))

\* C22: type inference commutes with the value constructors.  The type
\* of Value::new_tuple(vs) is Type::new_tuple of the types of vs in order
\* when every value of vs has a type; the type of v.new_reference() is
\* Type::new_reference of the type of v and the type of
\* v.new_reference_mut() is Type::new_reference_mut of it, without
\* lifetime, when v has a type.
C22_TypeOfConstructors ==
    /\ (vcall.op = "new_tuple" /\ ~vfatal /\ AllTyped(VALUES, vcall.args))
            => ValueRef_get_type(VALUES, val)
                = Type_new_tuple([i \in DOMAIN vcall.args |->
                        ValueRef_get_type(VALUES, vcall.args[i])])
    /\ (/\ vcall.op = "new_reference"
         /\ ~vfatal
         /\ AllTyped(VALUES, <<vcall.self>>))
            => ValueRef_get_type(VALUES, val)
                = Type_new_reference(ValueRef_get_type(VALUES, vcall.self))
    /\ (/\ vcall.op = "new_reference_mut"
         /\ ~vfatal
         /\ AllTyped(VALUES, <<vcall.self>>))
            => /\ ValueRef_get_type(VALUES, val)
                    = Type_new_reference_mut(ValueRef_get_type(VALUES, vcall.self))
               /\ ValueRef_get_type(VALUES, val).lifetime = <<>>

\* C22 happens: a tuple of two values of different types was built, and
\* its type lists the two types in order.
C22_Witness ==
    /\ vcall.op = "new_tuple"
    /\ ~vfatal
    /\ Len(vcall.args) = 2
    /\ AllTyped(VALUES, vcall.args)
    /\ ValueRef_get_type(VALUES, vcall.args[1])
            # ValueRef_get_type(VALUES, vcall.args[2])
    /\ ValueRef_get_type(VALUES, val)
            = TupleType(<<ValueRef_get_type(VALUES, vcall.args[1]),
                          ValueRef_get_type(VALUES, vcall.args[2])>>)

\* The borrows of the value arena held after the first k events.
Held(evs, k) ==
    Cardinality({i \in 1..k : evs[i] = "borrow"})
        - Cardinality({i \in 1..k : evs[i] = "release"})

\* C23: no operation of the Value algebra pushes a node into the value
\* arena while a borrow of the arena is held.  In every call, each push
\* comes when every borrow made before it has been released, the pushes
\* of the call are the nodes it added to the arena, and no borrow is held
\* when the call ends.
C23_NoPushUnderBorrow ==
    [][vcall'.op # "none"
            => /\ \A k \in DOMAIN events' :
                    /\ Held(events', k) >= 0
                    /\ events'[k] = "push" => Held(events', k - 1) = 0
               /\ Held(events', Len(events')) = 0
               /\ Cardinality({k \in DOMAIN events' : events'[k] = "push"})
                    = Len(VALUES') - Len(VALUES)
      ]_vars

\* C23 happens: a call borrowed the arena inside a borrow, released both
\* and pushed afterwards.
C23_Witness ==
    /\ ~vfatal
    /\ \E k \in DOMAIN events :
            /\ events[k] = "push"
            /\ \E j \in 1..(k - 1) : Held(events, j) = 2

====
